---- MODULE Spec2Model ----
(***************************************************************************)
(* MediMeal: the recommendation, search and prediction services and the    *)
(* HTTP handlers in front of them.                                         *)
(*                                                                         *)
(* Strings are sequences of one-character strings, so that lower-casing,   *)
(* substring search and tokenisation are computed and not assumed.  Row    *)
(* positions are 1-based here (pandas and numpy count from 0).             *)
(***************************************************************************)
EXTENDS Integers, Sequences, FiniteSets, TLC

VARIABLES
    app,               \* which program runs: "Backend/main.py" or "main.py"
    workload,          \* the kind of requests the clients of this run send
    numpy_ties,        \* how this build's unstable numpy sorts order equal keys
    pc,                \* position of the server process, from import to "idle" and "responded"
    req,               \* the request being answered (a record), or NoReq
    resp,              \* the response to req, or NoResp
    drugs_csv,         \* Backend/data/drugs_side_effects_drugs_com.csv: Missing or its rows
    trainer,           \* Backend/main.py global trainer: its models dict
    drug_recommender,  \* Backend/main.py global: Unset | None | a DrugRecommender
    medicare_csv,      \* Backend/data/DSD_PTD_RY24_P04_V10_DY22_BGM.csv: Missing or its rows
    startup_analyzer,  \* the name analyzer local to startup_event
    analyzer,          \* the module global analyzer that the handler reads
    medicines_csv,     \* data/medicines_dataset.csv: Missing or its rows
    ml_service,        \* main.py global ml_service: Unset | a MedicineRecommender
    anthropometric_csv, \* Backend/data/anthropometric_measurements.csv: Missing or its table
    nutritional_model, \* nutritional_model.py global: Unset | a NutritionalModel
    fits,              \* how many times fit was called for each model of the backend
    earlier,           \* one earlier request of this run with its response, or NoCall
    inflight,          \* the requests being handled concurrently, per client
    rxnorm,            \* what the RxNorm service holds in this run: NoDrugGroup or its listing
    frame,             \* main.py: the handler stopped in requests.get, or NoFrame
    session_state,     \* Frontend/app.py: st.session_state, Unset before the script runs
    added              \* the searches added to recent_searches since the last clear

backendVars == <<drugs_csv, trainer, drug_recommender, medicare_csv, startup_analyzer, analyzer,
                 anthropometric_csv, nutritional_model>>
mainVars == <<medicines_csv, ml_service>>
envVars == <<app, workload, numpy_ties, rxnorm>>
frontendVars == <<session_state, added>>
ghostVars == <<earlier, inflight>>
vars == <<app, workload, numpy_ties, pc, req, resp, drugs_csv, trainer, drug_recommender,
          medicare_csv, startup_analyzer, analyzer, medicines_csv, ml_service,
          anthropometric_csv, nutritional_model, fits, earlier, inflight,
          rxnorm, frame, session_state, added>>

\* ------------------------------------------------------------------ bounds
MaxRows == 3           \* rows of a corpus of the recommendation workload
MaxDocs == 5           \* rows of a corpus of the search workload
MaxN == 2              \* largest n_recommendations of a direct call
MaxFeature == 1        \* largest value of a spending feature
MaxClients == 2
MaxEffects == 2
MaxPrice == 2
MaxProps == 2
MaxFaults == 1
MaxAdds == 11
MaxExtra == 1        \* requests handled at the same time

\* ------------------------------------------------------------------ strings
DrugA == <<"D", "r", "u", "g", "A">>
DrugB == <<"D", "r", "u", "g", "B">>
DrugC == <<"D", "r", "u", "g", "C">>
druga == <<"d", "r", "u", "g", "a">>
Drug == <<"D", "r", "u", "g">>
nausea_dizziness == <<"n", "a", "u", "s", "e", "a", ",", " ", "d", "i", "z", "z", "i", "n", "e", "s", "s">>
nausea_headache == <<"n", "a", "u", "s", "e", "a", ",", " ", "h", "e", "a", "d", "a", "c", "h", "e">>
rash == <<"r", "a", "s", "h">>
the_headache_and_nausea == <<"t", "h", "e", " ", "h", "e", "a", "d", "a", "c", "h", "e", " ", "a", "n", "d", " ", "n", "a", "u", "s", "e", "a">>
EmptyStr == <<>>

UpperChars == <<"A", "B", "C", "D", "E", "F", "G", "H", "I", "J", "K", "L", "M", "N", "O", "P", "Q", "R", "S", "T", "U", "V", "W", "X", "Y", "Z">>
LowerChars == <<"a", "b", "c", "d", "e", "f", "g", "h", "i", "j", "k", "l", "m", "n", "o", "p", "q", "r", "s", "t", "u", "v", "w", "x", "y", "z">>
OtherWordChars == {"0", "1", "2", "3", "4", "5", "6", "7", "8", "9", "_"}

Range26(s) == { s[i] : i \in 1..26 }

\* str.lower() of one character, and of a string
LowerOf == [c \in Range26(UpperChars) |-> LowerChars[CHOOSE i \in 1..26 : UpperChars[i] = c]]

LowerChar(c) == IF c \in DOMAIN LowerOf THEN LowerOf[c] ELSE c

lower(s) == [i \in 1..Len(s) |-> LowerChar(s[i])]

\* \w of the token pattern
WordChars == Range26(UpperChars) \cup Range26(LowerChars) \cup OtherWordChars

IsWordChar(c) == c \in WordChars

\* sub occurs in s at some position (Python's `sub in s`)
Contains(s, sub) ==
    \E k \in 0..(Len(s) - Len(sub)) :
        \A i \in 1..Len(sub) : s[k + i] = sub[i]

\* ------------------------------------------------------------------ TF-IDF
\* sklearn's token_pattern (?u)\b\w\w+\b : the maximal runs of word characters
\* of length at least two, in order of occurrence
RECURSIVE Scan(_, _, _)
Scan(s, i, cur) ==
    LET done == IF Len(cur) >= 2 THEN <<cur>> ELSE <<>>
    IN  IF i > Len(s) THEN done
        ELSE IF IsWordChar(s[i]) THEN Scan(s, i + 1, Append(cur, s[i]))
        ELSE done \o Scan(s, i + 1, <<>>)

\* the members of sklearn's ENGLISH_STOP_WORDS that the modelled texts can hold
ENGLISH_STOP_WORDS == { <<"t", "h", "e">>, <<"a", "n", "d">>, <<"o", "f">> }

\* build_analyzer(): lower-case, tokenise, drop the stop words
Analyze(doc, stop_words) ==
    SelectSeq(Scan(lower(doc), 1, <<>>), LAMBDA t : t \notin stop_words)

\* 10 * (ln((1 + n) / (1 + df)) + 1), rounded: smooth_idf of n documents
\* (row n of the table) for a term found in df of them (column df)
IdfTimes10 ==
    << <<10>>,
       <<14, 10>>,
       <<17, 13, 10>>,
       <<19, 15, 12, 10>>,
       <<21, 17, 14, 12, 10>>,
       <<23, 18, 16, 13, 12, 10>>,
       <<24, 20, 17, 15, 13, 11, 10>>,
       <<25, 21, 18, 16, 14, 13, 11, 10>>,
       <<26, 22, 19, 17, 15, 14, 12, 11, 10>> >>

\* F(v) with v evaluated once (a local name for a value that is read often)
With(v, F(_)) == CHOOSE r \in { F(x) : x \in {v} } : TRUE

RECURSIVE SumOver(_, _)
SumOver(S, f) ==
    IF S = {} THEN 0
    ELSE LET x == CHOOSE y \in S : TRUE IN f[x] + SumOver(S \ {x}, f)

Range(s) == { s[i] : i \in 1..Len(s) }

RECURSIVE SetToSeq(_)
SetToSeq(S) ==
    IF S = {} THEN <<>>
    ELSE LET x == CHOOSE y \in S : TRUE IN <<x>> \o SetToSeq(S \ {x})

\* term frequency of t in a token list
Tf(tokens, t) == Cardinality({ i \in 1..Len(tokens) : tokens[i] = t })

\* TfidfVectorizer.fit: the vocabulary (the terms, one per matrix column)
\* and the idf of each column.  An empty vocabulary makes fit raise
\* ValueError.
Fit(docs, stop_words) ==
    With([i \in 1..Len(docs) |-> Range(Analyze(docs[i], stop_words))], LAMBDA toks :
    With(SetToSeq(UNION { toks[i] : i \in 1..Len(docs) }), LAMBDA vocab :
        [ vocabulary |-> vocab,
          idf        |-> [c \in 1..Len(vocab) |->
                            IdfTimes10[Len(docs)][Cardinality({ i \in 1..Len(docs) : vocab[c] \in toks[i] })]],
          stop_words |-> stop_words ]))

\* TfidfVectorizer.transform of one document: tf * idf per column.  The L2
\* normalisation of the row is a positive scaling that the cosine undoes; the
\* row is kept unscaled, in tenths.
Transform(tfidf, doc) ==
    With(Analyze(doc, tfidf.stop_words), LAMBDA tokens :
        [c \in 1..Len(tfidf.vocabulary) |-> Tf(tokens, tfidf.vocabulary[c]) * tfidf.idf[c]])

RECURSIVE DotFrom(_, _, _)
DotFrom(u, v, c) == IF c > Len(u) THEN 0 ELSE u[c] * v[c] + DotFrom(u, v, c + 1)

Dot(u, v) == DotFrom(u, v, 1)

\* A similarity is the square of the cosine as a fraction <<num, den>>; the
\* weights are non-negative, so the square orders as the cosine does.  A zero
\* vector has similarity 0 to everything, itself included.
SimZero == <<0, 1>>

Cosine(u, v) ==
    With(<<Dot(u, v), Dot(u, u) * Dot(v, v)>>, LAMBDA dn :
        IF dn[2] = 0 THEN SimZero ELSE <<dn[1] * dn[1], dn[2]>>)

\* comparison of p/q with r/s by continued fractions (no products): -1, 0, 1
RECURSIVE FracCmp(_, _, _, _)
FracCmp(p, q, r, s) ==
    LET a  == p \div q
        c  == r \div s
        p2 == p % q
        r2 == r % s
    IN  IF a # c THEN (IF a < c THEN -1 ELSE 1)
        ELSE IF p2 = 0 /\ r2 = 0 THEN 0
        ELSE IF p2 = 0 THEN -1
        ELSE IF r2 = 0 THEN 1
        ELSE FracCmp(s, r2, q, p2)

SimLess(x, y) == FracCmp(x[1], x[2], y[1], y[2]) = -1
SimEq(x, y) == FracCmp(x[1], x[2], y[1], y[2]) = 0

\* cosine_similarity(X, Y): Y's rows against each row of X
CosineSimilarity(X, Y) ==
    [i \in 1..Len(X) |-> [j \in 1..Len(Y) |-> Cosine(X[i], Y[j])]]


\* ------------------------------------------------------------------ data
\* an empty CSV cell, as pandas reads it
NaN == <<"NaN">>

fillna(x) == IF x = NaN THEN EmptyStr ELSE x

Min(S) == CHOOSE x \in S : \A y \in S : x <= y

NoReq == [op |-> "none"]
NoResp == [kind |-> "none"]
NoCall == [req |-> NoReq, resp |-> NoResp]
NoFrame == [handler |-> "none"]
NoDrugGroup == [drugGroup |-> FALSE]
Missing == [exists |-> FALSE]
Unset == [kind |-> "unset"]
None == [kind |-> "None"]

File(rows) == [exists |-> TRUE, rows |-> rows]

Pain == <<"P", "a", "i", "n">>
see_druga == <<"s", "e", "e", " ", "D", "r", "u", "g", "A">>

DrugRow(n, c, s) == [drug_name |-> n, medical_condition |-> c, side_effects |-> s]

\* the rows of the recommendation workload: few rows, varied side-effect texts
SideEffectTexts == {NaN, nausea_dizziness, the_headache_and_nausea}
DrugRows == { DrugRow(n, Pain, s) : n \in {DrugA, DrugB}, s \in SideEffectTexts }

\* the three-row corpus of the DrugA/DrugB/DrugC scenario
ScenarioCorpus ==
    << DrugRow(DrugA, Pain, nausea_dizziness),
       DrugRow(DrugB, Pain, nausea_headache),
       DrugRow(DrugC, Pain, rash) >>

\* the rows of the search workload: more rows, fewer kinds of them
SearchRows ==
    { DrugRow(DrugA, Pain, nausea_dizziness),
      DrugRow(DrugB, Pain, see_druga),
      DrugRow(DrugC, Pain, rash) }

QueryNames == {DrugA, DrugB, DrugC, druga, Drug}

CorporaOf(Rows, lo, hi) == UNION { [1..k -> Rows] : k \in lo..hi }

\* ------------------------------------------------------------------ Backend/ml/preprocess_drugs.py
\* preprocess_drug_data: the table with the empty text cells filled
preprocess_drug_data(csv) ==
    [i \in 1..Len(csv.rows) |->
        [ drug_name         |-> csv.rows[i].drug_name,
          medical_condition |-> fillna(csv.rows[i].medical_condition),
          side_effects      |-> fillna(csv.rows[i].side_effects) ]]

\* ------------------------------------------------------------------ Backend/ml/drug_recommender.py
\* fit_transform raises ValueError: empty vocabulary
EmptyVocabulary(docs, stop_words) ==
    \A i \in 1..Len(docs) : Analyze(docs[i], stop_words) = <<>>

\* DrugRecommender.__init__
\* a recommender whose matrix leaves out the rows without side effects
DrugRecommender_dropped(df) ==
    With(SelectSeq(df, LAMBDA r : r.side_effects # EmptyStr), LAMBDA kept :
    With(Fit([i \in 1..Len(kept) |-> kept[i].side_effects], ENGLISH_STOP_WORDS), LAMBDA tfidf :
    With([i \in 1..Len(kept) |-> Transform(tfidf, kept[i].side_effects)], LAMBDA tfidf_matrix :
        [ kind         |-> "DrugRecommender",
          df           |-> df,
          tfidf        |-> tfidf,
          tfidf_matrix |-> tfidf_matrix,
          cosine_sim   |-> CosineSimilarity(tfidf_matrix, tfidf_matrix) ])))

DrugRecommender(df) ==
    With(Fit([i \in 1..Len(df) |-> df[i].side_effects], ENGLISH_STOP_WORDS), LAMBDA tfidf :
    With([i \in 1..Len(df) |-> Transform(tfidf, df[i].side_effects)], LAMBDA tfidf_matrix :
        [ kind         |-> "DrugRecommender",
          df           |-> df,
          tfidf        |-> tfidf,
          tfidf_matrix |-> tfidf_matrix,
          cosine_sim   |-> CosineSimilarity(tfidf_matrix, tfidf_matrix) ]))

\* Python's sorted(pairs, key=lambda x: x[1], reverse=True) is stable: a pair
\* goes behind every pair already placed whose score is not below its own
InsertReverse(s, x) ==
    LET p == Cardinality({ i \in 1..Len(s) : ~SimLess(s[i][2], x[2]) })
    IN  SubSeq(s, 1, p) \o <<x>> \o SubSeq(s, p + 1, Len(s))

RECURSIVE SortedFrom(_, _, _)
SortedFrom(pairs, i, acc) ==
    IF i > Len(pairs) THEN acc
    ELSE SortedFrom(pairs, i + 1, InsertReverse(acc, pairs[i]))

\* an ascending stable sort read backwards: equal scores come out in
\* reverse order
sorted_then_reversed(pairs) ==
    With(SortedFrom([i \in 1..Len(pairs) |-> pairs[Len(pairs) + 1 - i]], 1, <<>>), LAMBDA s : s)

sorted_reverse(pairs) == SortedFrom(pairs, 1, <<>>)

\* Python's s[a:b] for 0 <= a <= b, on a 1-based sequence
Slice(s, a, b) == SubSeq(s, a + 1, IF b < Len(s) THEN b ELSE Len(s))

\* get_recommendations that looks the name up by containment ignoring case
get_recommendations_contains(self, drug_name, n_recommendations) ==
    LET hits == { i \in 1..Len(self.df) : Contains(lower(self.df[i].drug_name), lower(drug_name)) }
    IN  IF hits = {} THEN [kind |-> "raise", error |-> "IndexError"]
        ELSE
            LET idx        == Min(hits)
                sim_scores == [i \in 1..Len(self.df) |-> <<i, self.cosine_sim[idx][i]>>]
            IN  With(Slice(SortedFrom(sim_scores, 1, <<>>), 1, n_recommendations + 1), LAMBDA top :
                    [ kind  |-> "DataFrame", idx |-> idx,
                      index |-> [k \in 1..Len(top) |-> top[k][1]] ])

\* get_recommendations with the slice [1:n] in place of [1:n+1]
get_recommendations_short(self, drug_name, n_recommendations) ==
    LET hits == { i \in 1..Len(self.df) : self.df[i].drug_name = drug_name }
    IN  IF hits = {} THEN [kind |-> "raise", error |-> "IndexError"]
        ELSE
            LET idx        == Min(hits)
                sim_scores == [i \in 1..Len(self.df) |-> <<i, self.cosine_sim[idx][i]>>]
            IN  With(Slice(SortedFrom(sim_scores, 1, <<>>), 1, n_recommendations), LAMBDA top :
                    [ kind  |-> "DataFrame", idx |-> idx,
                      index |-> [k \in 1..Len(top) |-> top[k][1]] ])

\* DrugRecommender.get_recommendations: the index of the returned frame, or
\* the IndexError of .index[0] on an empty selection
get_recommendations(self, drug_name, n_recommendations) ==
    LET hits == { i \in 1..Len(self.df) : self.df[i].drug_name = drug_name }
    IN  IF hits = {} THEN [kind |-> "raise", error |-> "IndexError"]
        ELSE
            LET idx        == Min(hits)
                sim_scores == [i \in 1..Len(self.df) |-> <<i, self.cosine_sim[idx][i]>>]
            IN  With(Slice(sorted_reverse(sim_scores), 1, n_recommendations + 1), LAMBDA top :
                    [ kind  |-> "DataFrame", idx |-> idx,
                      index |-> [k \in 1..Len(top) |-> top[k][1]] ])

\* DataFrame.to_dict('records') of the columns the recommender returns
to_dict_records(df, index) ==
    [k \in 1..Len(index) |->
        [ drug_name         |-> df[index[k]].drug_name,
          medical_condition |-> df[index[k]].medical_condition ]]

\* ------------------------------------------------------------------ Backend/main.py: ModelTrainer
N_NEIGHBORS == 5

Space == <<" ">>

\* str.split(sep) for a one-character separator
RECURSIVE SplitFrom(_, _, _, _)
SplitFrom(s, sep, i, cur) ==
    IF i > Len(s) THEN <<cur>>
    ELSE IF s[i] = sep THEN <<cur>> \o SplitFrom(s, sep, i + 1, <<>>)
    ELSE SplitFrom(s, sep, i + 1, Append(cur, s[i]))

split(s, sep) == SplitFrom(s, sep, 1, <<>>)

\* train_medication_model: models['medication'], or None when read_csv or
\* fit_transform raises (the except clause prints and goes on).  max_features
\* (5000) exceeds every vocabulary of the modelled corpora and cuts nothing.
train_medication_model(csv) ==
    IF ~csv.exists THEN None
    ELSE
        With(csv.rows, LAMBDA df :
        With([i \in 1..Len(df) |->
                fillna(df[i].drug_name) \o Space \o
                fillna(df[i].medical_condition) \o Space \o
                fillna(df[i].side_effects)], LAMBDA text_data :
            IF EmptyVocabulary(text_data, {}) THEN None
            ELSE With(Fit(text_data, {}), LAMBDA vectorizer :
                    [ kind       |-> "medication",
                      vectorizer |-> vectorizer,
                      vectors    |-> [i \in 1..Len(df) |-> Transform(vectorizer, text_data[i])],
                      data       |-> df ])))

\* train_side_effects_model: whether models['side_effects'] gets set
train_side_effects_model(csv) ==
    /\ csv.exists
    /\ ~EmptyVocabulary([i \in 1..Len(csv.rows) |-> fillna(csv.rows[i].side_effects)], {})

\* ModelTrainer() followed by train_all_models()
train_all_models(csv) ==
    [ kind         |-> "ModelTrainer",
      medication   |-> train_medication_model(csv),
      side_effects |-> train_side_effects_model(csv) ]

\* the rows S in ascending cosine distance (descending similarity); rows at
\* the same distance come in the order this build's numpy leaves them in
RECURSIVE RankByDistance(_, _, _)
RankByDistance(S, sims, ties) ==
    IF S = {} THEN <<>>
    ELSE LET first == CHOOSE i \in S : \A j \in S \ {i} :
                          \/ SimLess(sims[j], sims[i])
                          \/ /\ SimEq(sims[j], sims[i])
                             /\ IF ties = "low_index_first" THEN i < j ELSE i > j
         IN  <<first>> \o RankByDistance(S \ {first}, sims, ties)

\* NearestNeighbors(n_neighbors=5, metric='cosine').kneighbors(vector): the
\* row positions of the five nearest rows, nearest first
kneighbors(model, vector, ties) ==
    With([i \in 1..Len(model.vectors) |-> Cosine(vector, model.vectors[i])], LAMBDA sims :
        SubSeq(RankByDistance(1..Len(model.vectors), sims, ties), 1, N_NEIGHBORS))

\* MedicationDetails(...) of a row; the fields that are the same literals for
\* every row (active_ingredients, form, interactions, storage, guidelines,
\* warnings) are left out
MedicationDetails(med) ==
    [ name         |-> med.drug_name,
      condition    |-> med.medical_condition,
      side_effects |-> IF med.side_effects = NaN THEN <<>> ELSE split(med.side_effects, ",") ]

\* a search whose ranking is read backwards once a call has been served
search_medications_drifting(self, query, ties) ==
    IF self.medication = None THEN <<>>
    ELSE
        LET model_dict == self.medication
            df         == model_dict.data
        IN  IF N_NEIGHBORS > Len(model_dict.vectors) THEN <<>>
            ELSE With(Transform(model_dict.vectorizer, query), LAMBDA vector :
                 With(kneighbors(model_dict, vector, ties), LAMBDA indices :
                    [k \in 1..Len(indices) |->
                        MedicationDetails(df[indices[IF earlier = NoCall THEN k
                                                     ELSE Len(indices) + 1 - k]])]))

\* ModelTrainer.search_medications(query, condition): condition is not read.
\* Every exception inside ends in the empty list.
search_medications(self, query, ties) ==
    IF self.medication = None THEN <<>>
    ELSE
        LET model_dict == self.medication
            df         == model_dict.data
        IN  IF N_NEIGHBORS > Len(model_dict.vectors) THEN <<>>
            ELSE With(Transform(model_dict.vectorizer, query), LAMBDA vector :
                 With(kneighbors(model_dict, vector, ties), LAMBDA indices :
                    [k \in 1..Len(indices) |-> MedicationDetails(df[indices[k]])]))

\* the body of GET /medications/{medication_name}/alternatives
alternatives(results) == IF Len(results) > 1 THEN SubSeq(results, 2, Len(results)) ELSE <<>>

\* ------------------------------------------------------------------ Backend/ml/medicare_drug_analysis.py
\* the keys predict_spending reads, in the order it reads them
RequestFeatures ==
    << "total_claims", "total_beneficiaries", "total_dosage_units",
       "avg_spending_per_claim", "avg_spending_per_beneficiary" >>

Sum(s) == SumOver(1..Len(s), s)

\* a row of the Medicare file: its five feature cells and Tot_Spndng_2022;
\* complete is FALSE when one of these cells is empty
MedicareRow(c, x, y) == [complete |-> c, x |-> x, y |-> y]

MedicareRows ==
    << MedicareRow(TRUE, <<0, 0, 0, 0, 0>>, 0),
       MedicareRow(TRUE, <<2, 1, 4, 3, 6>>, 6),
       MedicareRow(FALSE, <<1, 1, 1, 1, 1>>, 1),
       MedicareRow(TRUE, <<4, 2, 8, 5, 10>>, 20) >>

MedicareFiles == {Missing} \cup { File(SubSeq(MedicareRows, 1, k)) : k \in 0..Len(MedicareRows) }

\* MedicareDrugAnalyzer.__init__
MedicareDrugAnalyzer ==
    [kind |-> "MedicareDrugAnalyzer", model |-> None, scaler |-> [fitted |-> FALSE]]

\* StandardScaler.fit: the column means.  The division by the column's
\* deviation is a positive scaling of each column and is left out.
scaler_fit(X) ==
    [fitted |-> TRUE, mean_ |-> [c \in 1..5 |-> Sum([i \in 1..Len(X) |-> X[i][c]]) \div Len(X)]]

scaler_transform(scaler, x) == [c \in 1..5 |-> x[c] - scaler.mean_[c]]

\* RandomForestRegressor.predict, with the hundred trees stood for by one
\* split on whether the first scaled feature is above the training mean: the
\* mean target of the training rows on the input's side of it
forest_predict(model, x) ==
    LET n    == Len(model.X_train)
        same == { i \in 1..n : (model.X_train[i][1] > 0) = (x[1] > 0) }
        pool == IF same = {} THEN 1..n ELSE same
    IN  SumOver(pool, model.y_train) \div Cardinality(pool)

\* train_model(data_path): the analyzer afterwards.  It returns False, and
\* leaves model None, when read_csv, the scaler (no complete row) or
\* train_test_split (one complete row) raises.
train_model(self, csv) ==
    IF ~csv.exists THEN self
    ELSE
        LET df == SelectSeq(csv.rows, LAMBDA r : r.complete)
            n  == Len(df)
        IN  IF n = 0 THEN self
            ELSE
                LET scaler   == scaler_fit([i \in 1..n |-> df[i].x])
                    X_scaled == [i \in 1..n |-> scaler_transform(scaler, df[i].x)]
                    n_test   == (n + 4) \div 5
                    n_train  == n - n_test
                IN  IF n_train = 0 THEN [self EXCEPT !.scaler = scaler]
                    ELSE [self EXCEPT
                            !.scaler = scaler,
                            !.model  = [ kind    |-> "RandomForestRegressor",
                                         X_train |-> SubSeq(X_scaled, 1, n_train),
                                         y_train |-> [i \in 1..n_train |-> df[i].y] ]]

\* predict_spending whose prediction moves once a call has been served
predict_spending_drifting(self, features_dict) ==
    IF self.model = None
    THEN [status |-> "error", error |-> "Model not trained yet"]
    ELSE
        LET absent == { k \in 1..5 : RequestFeatures[k] \notin DOMAIN features_dict }
        IN  IF absent # {}
            THEN [status |-> "error", error |-> RequestFeatures[Min(absent)]]
            ELSE [ status |-> "success",
                   predicted_total_spending |->
                       forest_predict(self.model, scaler_transform(self.scaler,
                           [k \in 1..5 |-> features_dict[RequestFeatures[k]]]))
                       + (IF earlier = NoCall THEN 0 ELSE 1) ]

\* predict_spending reading each feature with a default of 0
predict_spending_defaults(self, features_dict) ==
    IF self.model = None
    THEN [status |-> "error", error |-> "Model not trained yet"]
    ELSE
        LET features == [k \in 1..5 |->
                            IF RequestFeatures[k] \in DOMAIN features_dict
                            THEN features_dict[RequestFeatures[k]] ELSE 0]
        IN  [ status |-> "success",
              predicted_total_spending |->
                  forest_predict(self.model, scaler_transform(self.scaler, features)) ]

\* MedicareDrugAnalyzer.predict_spending(features_dict)
predict_spending(self, features_dict) ==
    IF self.model = None
    THEN [status |-> "error", error |-> "Model not trained yet"]
    ELSE
        LET absent == { k \in 1..5 : RequestFeatures[k] \notin DOMAIN features_dict }
        IN  IF absent # {}
            THEN [status |-> "error", error |-> RequestFeatures[Min(absent)]]
            ELSE
                LET features        == [k \in 1..5 |-> features_dict[RequestFeatures[k]]]
                    features_scaled == scaler_transform(self.scaler, features)
                IN  [ status |-> "success",
                      predicted_total_spending |-> forest_predict(self.model, features_scaled) ]

\* ------------------------------------------------------------------ nutritional_model.py
\* prepare_features: feature_columns, in order
feature_columns ==
    << "current_weight_kg", "bmi_kg_m2", "fat_mass_perc", "muscle_mass_perc",
       "visceral_fat_level", "basal_metabolism", "waist_cm", "hip_cm" >>

\* train_models: targets, in the order the dict is iterated
TargetNames == <<"weight", "body_fat", "muscle_mass", "visceral_fat">>

targets ==
    [ weight       |-> "current_weight_kg",
      body_fat     |-> "fat_mass_perc",
      muscle_mass  |-> "muscle_mass_perc",
      visceral_fat |-> "visceral_fat_level" ]

\* a table read from anthropometric_measurements.csv: its columns, and rows
\* that give a value for every column or have an empty cell
Table(columns, rows) == [exists |-> TRUE, columns |-> columns, rows |-> rows]

Measurements(v) == [c \in Range(feature_columns) |-> v]

AnthropometricRow(c, v) == [complete |-> c, x |-> Measurements(v)]

AnthropometricRows ==
    << AnthropometricRow(TRUE, 0),
       AnthropometricRow(FALSE, 1),
       AnthropometricRow(TRUE, 2),
       AnthropometricRow(TRUE, 4) >>

FullAnthropometricFile == Table(Range(feature_columns), AnthropometricRows)

\* the file is absent, lacks a column, or holds some of the rows
AnthropometricFiles ==
    {Missing, Table(Range(feature_columns) \ {"hip_cm"}, AnthropometricRows)}
        \cup { Table(Range(feature_columns), SubSeq(AnthropometricRows, 1, k)) :
                  k \in 0..Len(AnthropometricRows) }

\* NutritionalModel.__init__
NutritionalModel == [kind |-> "NutritionalModel", models |-> <<>>, scalers |-> <<>>]

\* the columns of a frame as a row vector, in feature_columns order
AsVector(columns, x) ==
    LET cols == SelectSeq(feature_columns, LAMBDA c : c \in columns)
    IN  [k \in 1..Len(cols) |-> x[cols[k]]]

\* StandardScaler().fit on row vectors of any width: the column means
StandardScaler_fit(X) ==
    [ fitted |-> TRUE,
      mean_  |-> [c \in 1..Len(X[1]) |-> Sum([i \in 1..Len(X) |-> X[i][c]]) \div Len(X)] ]

\* scaler.transform of one row vector
StandardScaler_transform(scaler, x) == [c \in 1..Len(x) |-> x[c] - scaler.mean_[c]]

\* the body of the loop of train_models for one target: the fitted scaler
\* and forest, or the exception that leaves train_models
TrainTarget(df_clean, target_column) ==
    LET columns == Range(feature_columns) \ {target_column}
        n       == Len(df_clean)
    IN  IF n = 0 THEN [kind |-> "raise", error |-> "ValueError"]
        ELSE
            LET X        == [i \in 1..n |-> AsVector(columns, df_clean[i].x)]
                scaler   == StandardScaler_fit(X)
                n_test   == (n + 4) \div 5
                n_train  == n - n_test
            IN  IF n_train = 0 THEN [kind |-> "raise", error |-> "ValueError"]
                ELSE [ kind   |-> "trained",
                       scaler |-> scaler,
                       model  |-> [ kind    |-> "RandomForestRegressor",
                                    X_train |-> [i \in 1..n_train |->
                                                    StandardScaler_transform(scaler, X[i])],
                                    y_train |-> [i \in 1..n_train |->
                                                    df_clean[i].x[target_column]] ] ]

\* train_models from target number k on
RECURSIVE TrainFrom(_, _, _)
TrainFrom(self, df_clean, k) ==
    IF k > Len(TargetNames) THEN [kind |-> "return", self |-> self, fitted |-> k - 1]
    ELSE LET name == TargetNames[k]
             made == TrainTarget(df_clean, targets[name])
         IN  IF made.kind = "raise"
             THEN [kind |-> "raise", error |-> made.error, fitted |-> k]
             ELSE TrainFrom([self EXCEPT
                                !.models  = [m \in DOMAIN self.models \cup {name} |->
                                                IF m = name THEN made.model ELSE self.models[m]],
                                !.scalers = [m \in DOMAIN self.scalers \cup {name} |->
                                                IF m = name THEN made.scaler ELSE self.scalers[m]]],
                            df_clean, k + 1)

\* NutritionalModel.train_models: the model afterwards and the number of
\* targets a fit was called for, or the exception that leaves it.
\* load_data turns a failed read into None and train_models then returns;
\* nothing else in train_models is caught.
train_models(self, csv) ==
    IF ~csv.exists THEN [kind |-> "return", self |-> self, fitted |-> 0]
    ELSE IF ~(Range(feature_columns) \subseteq csv.columns)
    THEN [kind |-> "raise", error |-> "KeyError", fitted |-> 0]
    ELSE TrainFrom(self, SelectSeq(csv.rows, LAMBDA r : r.complete), 1)

\* NutritionalModel.predict_metrics(input_data).  The loop body reads
\* self.targets, an attribute no method assigns: with a trained model the
\* first iteration raises AttributeError, and the except clause returns {}.
predict_metrics(self, input_data) ==
    IF DOMAIN self.models = {} THEN <<>>
    ELSE IF "targets" \notin DOMAIN self THEN <<>>
    ELSE IF \E m \in DOMAIN self.models :
                DOMAIN input_data \ {self.targets[m]} # Range(feature_columns) \ {self.targets[m]}
    THEN <<>>
    ELSE [m \in DOMAIN self.models |->
            forest_predict(self.models[m],
                StandardScaler_transform(self.scalers[m],
                    AsVector(DOMAIN input_data \ {self.targets[m]}, input_data)))]

\* ------------------------------------------------------------------ Backend/main.py: the process
DefaultN == 5

FeatureDicts == UNION { [S -> 0..MaxFeature] : S \in SUBSET Range(RequestFeatures) }

\* the models of the backend that a fit is called for
FitNames == {"medication", "side_effects", "drug_recommender", "spending"} \cup Range(TargetNames)

NoFits == [m \in FitNames |-> 0]

\* fits after one more call of fit for each model of S
Fitted(S) == [m \in FitNames |-> IF m \in S THEN fits[m] + 1 ELSE fits[m]]


\* from nutritional_model import nutritional_model: the module builds the
\* NutritionalModel and trains it; an exception leaving train_models ends the
\* import of Backend/main.py
ImportNutritionalModel ==
    /\ app = "Backend/main.py"
    /\ pc = "import_nutritional_model"
    /\ LET done == train_models(NutritionalModel, anthropometric_csv)
       IN  /\ fits' = Fitted({ TargetNames[k] : k \in 1..done.fitted })
           /\ IF done.kind = "raise"
              THEN pc' = "crashed" /\ UNCHANGED nutritional_model
              ELSE pc' = "import_trainer" /\ nutritional_model' = done.self
    /\ UNCHANGED <<envVars, frame, frontendVars, req, resp, drugs_csv, trainer, drug_recommender, medicare_csv,
                   startup_analyzer, analyzer, anthropometric_csv, mainVars, ghostVars>>

\* trainer = ModelTrainer(); trainer.train_all_models()
TrainAllModels ==
    /\ app = "Backend/main.py"
    /\ pc = "import_trainer"
    /\ trainer' = train_all_models(drugs_csv)
    /\ fits' = Fitted(IF drugs_csv.exists THEN {"medication", "side_effects"} ELSE {})
    /\ pc' = "import_recommender"
    /\ UNCHANGED <<envVars, frame, frontendVars, req, resp, drugs_csv, drug_recommender, medicare_csv,
                   startup_analyzer, analyzer, anthropometric_csv, nutritional_model,
                   mainVars, ghostVars>>

\* df, label_encoder = preprocess_drug_data(); drug_recommender =
\* DrugRecommender(df); or None when either raises
\* module initialisation without the try: a failure ends the import
InitDrugRecommender_uncaught ==
    /\ app = "Backend/main.py"
    /\ pc = "import_recommender"
    /\ drug_recommender' =
         IF ~drugs_csv.exists THEN None
         ELSE LET df == preprocess_drug_data(drugs_csv)
              IN  IF EmptyVocabulary([i \in 1..Len(df) |-> df[i].side_effects], ENGLISH_STOP_WORDS)
                  THEN None
                  ELSE DrugRecommender(df)
    /\ fits' = Fitted(IF drugs_csv.exists THEN {"drug_recommender"} ELSE {})
    /\ pc' = IF drug_recommender' = None THEN "crashed" ELSE "startup"
    /\ UNCHANGED <<envVars, frame, frontendVars, req, resp, drugs_csv, trainer, medicare_csv, startup_analyzer,
                   analyzer, anthropometric_csv, nutritional_model, mainVars, ghostVars>>

\* the try of module level: preprocess_drug_data raises when the file is
\* missing, fit_transform when no side-effect text has a word; the except
\* leaves drug_recommender None
InitDrugRecommender ==
    /\ app = "Backend/main.py"
    /\ pc = "import_recommender"
    /\ drug_recommender' =
         IF ~drugs_csv.exists THEN None
         ELSE LET df == preprocess_drug_data(drugs_csv)
              IN  IF EmptyVocabulary([i \in 1..Len(df) |-> df[i].side_effects], ENGLISH_STOP_WORDS)
                  THEN None
                  ELSE DrugRecommender(df)
    /\ fits' = Fitted(IF drugs_csv.exists THEN {"drug_recommender"} ELSE {})
    /\ pc' = "startup"
    /\ UNCHANGED <<envVars, frame, frontendVars, req, resp, drugs_csv, trainer, medicare_csv, startup_analyzer,
                   analyzer, anthropometric_csv, nutritional_model, mainVars, ghostVars>>

\* startup_event: analyzer = MedicareDrugAnalyzer(); analyzer.train_model(data_path).
\* The assignment binds a name local to the function; train_model catches
\* its own exceptions, so the event itself does not raise.
startup_event ==
    /\ app = "Backend/main.py"
    /\ pc = "startup"
    /\ startup_analyzer' = train_model(MedicareDrugAnalyzer, medicare_csv)
    /\ fits' = Fitted(IF medicare_csv.exists THEN {"spending"} ELSE {})
    /\ pc' = "idle"
    /\ UNCHANGED <<envVars, frame, frontendVars, req, resp, drugs_csv, trainer, drug_recommender, medicare_csv,
                   analyzer, anthropometric_csv, nutritional_model, mainVars, ghostVars>>

\* one request is answered
Respond(request, response) ==
    /\ pc = "idle"
    /\ req' = request
    /\ resp' = response
    /\ pc' = "responded"
    /\ UNCHANGED <<envVars, frame, frontendVars, backendVars, mainVars, fits, ghostVars>>

\* a search handler that trains the medication model again before searching
handler_search_medications_retrain(query) ==
    /\ app = "Backend/main.py"
    /\ workload = "search"
    /\ pc = "idle"
    /\ trainer' = train_all_models(drugs_csv)
    /\ fits' = Fitted(IF drugs_csv.exists THEN {"medication", "side_effects"} ELSE {})
    /\ req' = [op |-> "GET /search/medications", query |-> query]
    /\ resp' = [kind |-> "json", status |-> 200,
                body |-> search_medications(trainer', query, numpy_ties)]
    /\ pc' = "responded"
    /\ UNCHANGED <<envVars, frame, frontendVars, drugs_csv, drug_recommender, medicare_csv, startup_analyzer,
                   analyzer, anthropometric_csv, nutritional_model, mainVars, ghostVars>>

\* GET /search/medications?query=..
handler_search_medications(query) ==
    /\ app = "Backend/main.py"
    /\ workload \in {"search", "repeat", "self_match"}
    /\ Respond([op |-> "GET /search/medications", query |-> query],
               [kind |-> "json", status |-> 200,
                body |-> search_medications(trainer, query, numpy_ties)])

\* the alternatives handler fitting the vectorizer again, on the name asked for
get_alternatives_refit(medication_name) ==
    /\ app = "Backend/main.py"
    /\ workload \in {"search", "repeat"}
    /\ pc = "idle"
    /\ trainer' = IF trainer.medication = None THEN trainer
                  ELSE [trainer EXCEPT !.medication.vectorizer = Fit(<<medication_name>>, {})]
    /\ req' = [op |-> "GET /medications/alternatives", medication_name |-> medication_name]
    /\ resp' = [kind |-> "json", status |-> 200,
                body |-> alternatives(search_medications(trainer', medication_name, numpy_ties))]
    /\ pc' = "responded"
    /\ UNCHANGED <<envVars, frame, frontendVars, drugs_csv, drug_recommender, medicare_csv, startup_analyzer,
                   analyzer, anthropometric_csv, nutritional_model, mainVars, fits, ghostVars>>

\* GET /medications/{medication_name}/alternatives
get_alternatives(medication_name) ==
    /\ app = "Backend/main.py"
    /\ workload \in {"search", "repeat"}
    /\ Respond([op |-> "GET /medications/alternatives", medication_name |-> medication_name],
               [kind |-> "json", status |-> 200,
                body |-> alternatives(search_medications(trainer, medication_name, numpy_ties))])

\* GET /api/drug-recommendations/{drug_name}
get_drug_recommendations(drug_name) ==
    /\ app = "Backend/main.py"
    /\ workload \in {"recommend", "repeat"}
    /\ Respond([op |-> "GET /api/drug-recommendations", drug_name |-> drug_name],
               IF drug_recommender = None
               THEN [kind |-> "json", status |-> "error",
                     message |-> "Drug recommender not initialized"]
               ELSE LET r == get_recommendations(drug_recommender, drug_name, DefaultN)
                    IN  IF r.kind = "raise"
                        THEN [kind |-> "json", status |-> "error", message |-> r.error]
                        ELSE [kind |-> "json", status |-> "success",
                              recommendations |-> to_dict_records(drug_recommender.df, r.index)])

\* a call drug_recommender.get_recommendations(drug_name, n_recommendations)
CallGetRecommendations(drug_name, n) ==
    /\ app = "Backend/main.py"
    /\ workload = "recommend"
    /\ drug_recommender # None
    /\ Respond([op |-> "get_recommendations", drug_name |-> drug_name, n_recommendations |-> n],
               get_recommendations(drug_recommender, drug_name, n))

\* POST /api/predict-spending.  The body is validated against DrugFeatures
\* before the function runs (422 naming the absent fields).  In the function
\* the global name analyzer is read: unbound, that is a NameError, and the
\* except clause turns every exception, the HTTPException(400) raised for an
\* error result included, into a 500.
handler_predict_spending(body) ==
    /\ app = "Backend/main.py"
    /\ workload = "spending"
    /\ Respond([op |-> "POST /api/predict-spending", features |-> body],
               LET absent == { k \in 1..5 : RequestFeatures[k] \notin DOMAIN body }
               IN  IF absent # {}
                   THEN [kind |-> "http", status |-> 422,
                         fields |-> { RequestFeatures[k] : k \in absent }]
                   ELSE IF analyzer = Unset
                   THEN [kind |-> "http", status |-> 500, detail |-> "NameError"]
                   ELSE LET result == predict_spending(analyzer, body)
                        IN  IF result.status = "error"
                            THEN [kind |-> "http", status |-> 500, detail |-> result.error]
                            ELSE [kind |-> "http", status |-> 200, body |-> result])

\* the feature dicts of the "repeat" workload: every feature at the same
\* value, and the empty dict
RepeatedDicts == { [k \in Range(RequestFeatures) |-> v] : v \in 0..MaxFeature } \cup { <<>> }

\* predict_spending calling fit_transform on the features it is given
CallPredictSpending_refit(features_dict) ==
    /\ app = "Backend/main.py"
    /\ \/ workload = "spending"
       \/ workload = "repeat" /\ features_dict \in RepeatedDicts
    /\ pc = "idle"
    /\ startup_analyzer' =
           IF DOMAIN features_dict = Range(RequestFeatures)
           THEN [startup_analyzer EXCEPT !.scaler =
                    scaler_fit(<<[k \in 1..5 |-> features_dict[RequestFeatures[k]]]>>)]
           ELSE startup_analyzer
    /\ req' = [op |-> "predict_spending", features |-> features_dict]
    /\ resp' = [kind |-> "dict", result |-> predict_spending(startup_analyzer', features_dict)]
    /\ pc' = "responded"
    /\ UNCHANGED <<envVars, frame, frontendVars, drugs_csv, trainer, drug_recommender, medicare_csv, analyzer,
                   anthropometric_csv, nutritional_model, mainVars, fits, ghostVars>>

\* a call predict_spending(features_dict) on the analyzer startup_event made
CallPredictSpending(features_dict) ==
    /\ app = "Backend/main.py"
    /\ \/ workload = "spending"
       \/ workload = "repeat" /\ features_dict \in RepeatedDicts
    /\ Respond([op |-> "predict_spending", features |-> features_dict],
               [kind |-> "dict", result |-> predict_spending(startup_analyzer, features_dict)])

\* the query parameters of GET /health/predict, in the order of the
\* feature_columns they are stored under
QueryParams ==
    <<"weight", "bmi", "fat_mass", "muscle_mass", "visceral_fat", "metabolism", "waist", "hip">>

\* requests that give every parameter the same value, and one without hip
HealthQueries ==
    { [q \in Range(QueryParams) |-> v] : v \in 0..MaxFeature }
        \cup { [q \in Range(QueryParams) \ {"hip"} |-> 0] }

\* dicts that give every measurement the same value, and one without hip_cm
MeasurementDicts ==
    { Measurements(v) : v \in 0..MaxFeature }
        \cup { [c \in Range(feature_columns) \ {"hip_cm"} |-> 0] }

\* the handler's input_data dict
InputData(params) == [c \in Range(feature_columns) |->
                        params[QueryParams[CHOOSE k \in 1..8 : feature_columns[k] = c]]]

\* GET /health/predict: the eight parameters are required (422 naming the
\* absent ones); the dict predict_metrics returns is the body
predict_health_metrics(params) ==
    /\ app = "Backend/main.py"
    /\ workload \in {"nutrition", "repeat"}
    /\ Respond([op |-> "GET /health/predict", params |-> params],
               IF DOMAIN params # Range(QueryParams)
               THEN [kind |-> "http", status |-> 422,
                     fields |-> Range(QueryParams) \ DOMAIN params]
               ELSE [kind |-> "http", status |-> 200,
                     body |-> predict_metrics(nutritional_model, InputData(params))])

\* a call nutritional_model.predict_metrics(input_data)
CallPredictMetrics(input_data) ==
    /\ app = "Backend/main.py"
    /\ workload \in {"nutrition", "repeat"}
    /\ Respond([op |-> "predict_metrics", input_data |-> input_data],
               [kind |-> "dict", result |-> predict_metrics(nutritional_model, input_data)])

\* the response is sent; the server waits for the next request.  In a run
\* of the "repeat" workload one finished call is kept in earlier, for a later
\* call to be compared with.
Reply ==
    /\ pc = "responded"
    /\ pc' = "idle"
    /\ req' = NoReq
    /\ resp' = NoResp
    /\ \/ UNCHANGED earlier
       \/ /\ workload = "repeat"
          /\ earlier = NoCall
          /\ earlier' = [req |-> req, resp |-> resp]
    /\ UNCHANGED <<envVars, frame, frontendVars, backendVars, mainVars, fits, inflight>>

\* the requests of the "concurrent" workload
ConcurrentRequests ==
    { [op |-> "GET /search/medications", query |-> q] : q \in {DrugA, DrugB} }
        \cup { [op |-> "GET /api/drug-recommendations", drug_name |-> d] : d \in {DrugA, DrugB} }
        \cup { [op |-> "GET /health/predict", params |-> [q \in Range(QueryParams) |-> 0]],
               [op |-> "POST /api/predict-spending",
                features |-> [k \in Range(RequestFeatures) |-> 0]] }

\* the route handler of a request, run to its response
call_handler(request) ==
    CASE request.op = "GET /search/medications" ->
            [kind |-> "json", status |-> 200,
             body |-> search_medications(trainer, request.query, numpy_ties)]
      [] request.op = "GET /api/drug-recommendations" ->
            IF drug_recommender = None
            THEN [kind |-> "json", status |-> "error",
                  message |-> "Drug recommender not initialized"]
            ELSE LET r == get_recommendations(drug_recommender, request.drug_name, DefaultN)
                 IN  IF r.kind = "raise"
                     THEN [kind |-> "json", status |-> "error", message |-> r.error]
                     ELSE [kind |-> "json", status |-> "success",
                           recommendations |-> to_dict_records(drug_recommender.df, r.index)]
      [] request.op = "GET /health/predict" ->
            [kind |-> "http", status |-> 200,
             body |-> predict_metrics(nutritional_model, InputData(request.params))]
      [] request.op = "POST /api/predict-spending" ->
            IF analyzer = Unset
            THEN [kind |-> "http", status |-> 500, detail |-> "NameError"]
            ELSE LET result == predict_spending(analyzer, request.features)
                 IN  IF result.status = "error"
                     THEN [kind |-> "http", status |-> 500, detail |-> result.error]
                     ELSE [kind |-> "http", status |-> 200, body |-> result]

\* log_requests up to its await: the request of client c is logged and
\* handed to call_next
log_requests_start(c, request) ==
    /\ app = "Backend/main.py"
    /\ workload = "concurrent"
    /\ pc = "idle"
    /\ inflight[c].stage = "none"
    /\ inflight' = [inflight EXCEPT ![c] = [stage |-> "accepted", req |-> request]]
    /\ UNCHANGED <<envVars, frame, frontendVars, pc, req, resp, backendVars, mainVars, fits, earlier>>

\* a call_next whose search handler fits the vectorizer again, on the query
call_next_refit(c) ==
    /\ inflight[c].stage = "accepted"
    /\ trainer' = IF inflight[c].req.op = "GET /search/medications" /\ trainer.medication # None
                  THEN [trainer EXCEPT !.medication.vectorizer = Fit(<<inflight[c].req.query>>, {})]
                  ELSE trainer
    /\ inflight' = [inflight EXCEPT ![c] = [stage |-> "handled", req |-> inflight[c].req,
                                            resp |-> call_handler(inflight[c].req)]]
    /\ UNCHANGED <<envVars, frame, frontendVars, pc, req, resp, drugs_csv, drug_recommender, medicare_csv,
                   startup_analyzer, analyzer, anthropometric_csv, nutritional_model,
                   mainVars, fits, earlier>>

\* call_next: the handler of client c's request runs, without an await, from
\* its first line to its response
call_next(c) ==
    /\ inflight[c].stage = "accepted"
    /\ inflight' = [inflight EXCEPT ![c] = [stage |-> "handled", req |-> inflight[c].req,
                                            resp |-> call_handler(inflight[c].req)]]
    /\ UNCHANGED <<envVars, frame, frontendVars, pc, req, resp, backendVars, mainVars, fits, earlier>>

\* log_requests after its await: the time is logged, the response returned
log_requests_end(c) ==
    /\ inflight[c].stage = "handled"
    /\ inflight' = [inflight EXCEPT ![c] = [stage |-> "none"]]
    /\ UNCHANGED <<envVars, frame, frontendVars, pc, req, resp, backendVars, mainVars, fits, earlier>>

FullMedicareFile == File(MedicareRows)

\* corpora of MaxDocs rows that begin with the three search rows
RepeatCorpora ==
    { c \in CorporaOf(SearchRows, MaxDocs, MaxDocs) :
         /\ c[1] = DrugRow(DrugA, Pain, nausea_dizziness)
         /\ c[2] = DrugRow(DrugB, Pain, see_druga)
         /\ c[3] = DrugRow(DrugC, Pain, rash) }

\* a corpus of as many rows as a search returns, none of them DrugC
CorpusWithoutDrugC ==
    [k \in 1..N_NEIGHBORS |-> IF k = 2 THEN DrugRow(DrugB, Pain, see_druga)
                              ELSE DrugRow(DrugA, Pain, nausea_dizziness)]

\* corpora with a row named DrugA and up to MaxExtra rows more than a search
\* returns, the other rows naming DrugA in their side-effect text
SelfMatchCorpora ==
    { c \in CorporaOf({DrugRow(DrugA, Pain, nausea_dizziness), DrugRow(DrugB, Pain, see_druga)},
                      N_NEIGHBORS, N_NEIGHBORS + MaxExtra) :
         \E k \in 1..Len(c) : c[k].drug_name = DrugA }

NoInflight == [c \in 1..MaxClients |-> [stage |-> "none"]]

InitBackend ==
    /\ app = "Backend/main.py"
    /\ pc = "import_nutritional_model"
    /\ nutritional_model = Unset
    /\ fits = NoFits
    /\ earlier = NoCall
    /\ inflight = NoInflight
    /\ rxnorm = NoDrugGroup
    /\ frame = NoFrame
    /\ session_state = Unset
    /\ added = <<>>
    /\ req = NoReq
    /\ resp = NoResp
    /\ trainer = Unset
    /\ drug_recommender = Unset
    /\ startup_analyzer = Unset
    /\ analyzer = Unset
    /\ medicines_csv = Missing
    /\ ml_service = Unset
    /\ \/ /\ workload = "recommend"
          /\ numpy_ties = "low_index_first"
          /\ drugs_csv \in {Missing, File(ScenarioCorpus)}
                           \cup { File(c) : c \in CorporaOf(DrugRows, 1, MaxRows) }
          /\ medicare_csv = FullMedicareFile
          /\ anthropometric_csv = FullAnthropometricFile
       \/ /\ workload = "search"
          /\ numpy_ties \in {"low_index_first", "high_index_first"}
          /\ drugs_csv \in {Missing}
                           \cup { File(c) : c \in CorporaOf(SearchRows, N_NEIGHBORS - 1, MaxDocs) }
          /\ medicare_csv = FullMedicareFile
          /\ anthropometric_csv = FullAnthropometricFile
       \/ /\ workload = "spending"
          /\ numpy_ties = "low_index_first"
          /\ drugs_csv = File(ScenarioCorpus)
          /\ medicare_csv \in MedicareFiles
          /\ anthropometric_csv = FullAnthropometricFile
       \/ /\ workload = "repeat"
          /\ numpy_ties \in {"low_index_first", "high_index_first"}
          /\ drugs_csv \in {Missing, File(CorpusWithoutDrugC)}
                           \cup { File(c) : c \in RepeatCorpora }
          /\ medicare_csv = FullMedicareFile
          /\ anthropometric_csv = FullAnthropometricFile
       \/ /\ workload = "self_match"
          /\ numpy_ties \in {"low_index_first", "high_index_first"}
          /\ drugs_csv \in { File(c) : c \in SelfMatchCorpora }
          /\ medicare_csv = FullMedicareFile
          /\ anthropometric_csv = FullAnthropometricFile
       \/ /\ workload = "concurrent"
          /\ numpy_ties \in {"low_index_first", "high_index_first"}
          /\ drugs_csv = File([k \in 1..N_NEIGHBORS |->
                                 IF k = 2 THEN DrugRow(DrugB, Pain, see_druga)
                                 ELSE IF k = 3 THEN DrugRow(DrugC, Pain, rash)
                                 ELSE DrugRow(DrugA, Pain, nausea_dizziness)])
          /\ medicare_csv = FullMedicareFile
          /\ anthropometric_csv = FullAnthropometricFile
       \/ /\ workload = "nutrition"
          /\ numpy_ties = "low_index_first"
          /\ drugs_csv = File(ScenarioCorpus)
          /\ medicare_csv = FullMedicareFile
          /\ anthropometric_csv \in AnthropometricFiles

NextBackend ==
    \/ ImportNutritionalModel
    \/ TrainAllModels
    \/ InitDrugRecommender
    \/ startup_event
    \/ \E q \in QueryNames : handler_search_medications(q)
    \/ \E q \in QueryNames : get_alternatives(q)
    \/ \E d \in QueryNames : get_drug_recommendations(d)
    \/ \E d \in QueryNames, n \in 1..MaxN : CallGetRecommendations(d, n)
    \/ \E f \in FeatureDicts : handler_predict_spending(f)
    \/ \E f \in FeatureDicts : CallPredictSpending(f)
    \/ \E q \in HealthQueries : predict_health_metrics(q)
    \/ \E d \in MeasurementDicts : CallPredictMetrics(d)
    \/ Reply
    \/ \E c \in 1..MaxClients, r \in ConcurrentRequests : log_requests_start(c, r)
    \/ \E c \in 1..MaxClients : call_next(c)
    \/ \E c \in 1..MaxClients : log_requests_end(c)

SpecBackend == InitBackend /\ [][NextBackend]_vars

\* ------------------------------------------------------------------ ml_service.py: data
Amide == <<"A", "m", "i", "d", "e">>
Analgesic == <<"A", "n", "a", "l", "g", "e", "s", "i", "c">>
Blocker == <<"B", "l", "o", "c", "k", "e", "r">>
DrugA_x == <<"D", "r", "u", "g", "A", " ", "(", "x", ")">>
Drug_dot == <<"D", "r", "u", "g", ".">>
open_x == <<"(", "x">>
DrugC_DrugB == <<"D", "r", "u", "g", "C", " ", "D", "r", "u", "g", "B">>
nan == <<"n", "a", "n">>

\* the cells sideEffect0.. (and substitute0..) of a row, first one filled
Cells(first) == [k \in 1..MaxEffects |-> IF k = 1 THEN first ELSE NaN]

\* a row of medicines_dataset.csv; the row of DrugB has no side effect
MedicineRow(n, c, t, a) ==
    [ name |-> n, chemical_class |-> c, therapeutic_class |-> t, action_class |-> a,
      use0 |-> NaN, use1 |-> NaN, use2 |-> NaN,
      sideEffect    |-> Cells(IF n = DrugB THEN NaN ELSE rash \o Space),
      substitute    |-> Cells(DrugC),
      habit_forming |-> NaN ]

\* the rows a medicines corpus is drawn from: two rows that differ only in a
\* parenthesised suffix of the name, and a row with empty class cells
MedicineRows ==
    { MedicineRow(DrugA, Amide, Analgesic, Blocker),
      MedicineRow(DrugA_x, Amide, Analgesic, Blocker),
      MedicineRow(DrugB, NaN, Analgesic, NaN) }

MedicineQueries == {DrugA, druga, Drug, DrugB, DrugC, Drug_dot, DrugA_x, open_x, Analgesic, DrugC_DrugB}

Column(df, f) == [i \in 1..Len(df) |-> df[i][f]]

\* ------------------------------------------------------------------ str and re
\* re.compile of a pattern made of letters, digits, "_", spaces, "." and
\* parentheses: a group of plain atoms matches what its atoms match, an
\* unbalanced parenthesis is re.error
RECURSIVE ParenDepth(_, _, _)
ParenDepth(p, i, depth) ==
    IF depth < 0 THEN -1
    ELSE IF i > Len(p) THEN depth
    ELSE IF p[i] = "(" THEN ParenDepth(p, i + 1, depth + 1)
    ELSE IF p[i] = ")" THEN ParenDepth(p, i + 1, depth - 1)
    ELSE ParenDepth(p, i + 1, depth)

re_compile(pat) ==
    IF ParenDepth(pat, 1, 0) # 0 THEN [ok |-> FALSE]
    ELSE [ok |-> TRUE, atoms |-> SelectSeq(pat, LAMBDA c : c \notin {"(", ")"})]

\* pattern.search(text), with re.IGNORECASE when ignorecase
re_search(atoms, text, ignorecase) ==
    \E k \in 0..(Len(text) - Len(atoms)) :
        \A i \in 1..Len(atoms) :
            \/ atoms[i] = "."
            \/ atoms[i] = text[k + i]
            \/ ignorecase /\ LowerChar(atoms[i]) = LowerChar(text[k + i])

\* Series.str.contains(pat, case=case, na=False): the positions where the
\* mask is True.  A column read with no text in it has dtype float64 and no
\* .str accessor.
str_contains(column, pat, case) ==
    IF \A i \in 1..Len(column) : column[i] = NaN
    THEN [kind |-> "raise", error |-> "AttributeError"]
    ELSE With(re_compile(pat), LAMBDA re :
            IF ~re.ok THEN [kind |-> "raise", error |-> "re.error"]
            ELSE [ kind |-> "mask",
                   rows |-> { i \in 1..Len(column) :
                                 /\ column[i] # NaN
                                 /\ re_search(re.atoms, column[i], ~case) } ])

\* Series.str.lower()
str_lower(column) == [i \in 1..Len(column) |-> IF column[i] = NaN THEN NaN ELSE lower(column[i])]

RECURSIVE StripLeft(_)
StripLeft(s) == IF s # <<>> /\ Head(s) = " " THEN StripLeft(Tail(s)) ELSE s

Reverse(s) == [i \in 1..Len(s) |-> s[Len(s) + 1 - i]]

\* str.strip()
strip(s) == Reverse(StripLeft(Reverse(StripLeft(s))))

\* str.split() on whitespace
split_words(s) == SelectSeq(split(s, " "), LAMBDA w : w # <<>>)

\* str(value) of a cell
str(v) == IF v = NaN THEN nan ELSE v

\* ------------------------------------------------------------------ ml_service.py: MedicineRecommender
TextColumns == <<"name", "chemical_class", "therapeutic_class", "action_class", "use0", "use1", "use2">>

RECURSIVE JoinFrom(_, _)
JoinFrom(row, k) ==
    IF k > Len(TextColumns) THEN <<>>
    ELSE (IF k = 1 THEN <<>> ELSE Space) \o fillna(row[TextColumns[k]]) \o JoinFrom(row, k + 1)

\* df['name'].fillna('') + ' ' + df['Chemical Class'].fillna('') + ' ' + ..
combined_features(row) == JoinFrom(row, 1)

\* MedicineRecommender(): read the dataset, fit the vectorizer; any exception
\* leaves the constructor
MedicineRecommender(csv) ==
    IF ~csv.exists THEN [kind |-> "raise", error |-> "FileNotFoundError"]
    ELSE With([i \in 1..Len(csv.rows) |-> combined_features(csv.rows[i])], LAMBDA docs :
            IF EmptyVocabulary(docs, ENGLISH_STOP_WORDS)
            THEN [kind |-> "raise", error |-> "ValueError"]
            ELSE With(Fit(docs, ENGLISH_STOP_WORDS), LAMBDA tfidf :
                    [ kind         |-> "MedicineRecommender",
                      df           |-> csv.rows,
                      tfidf        |-> tfidf,
                      tfidf_matrix |-> [i \in 1..Len(docs) |-> Transform(tfidf, docs[i])] ]))

Return(v) == [kind |-> "return", value |-> v]
Raise(e) == [kind |-> "raise", error |-> e]

\* for word in search_words: the first word longer than 3 characters that
\* some name contains decides
RECURSIVE WordMatch(_, _, _)
WordMatch(names, words, k) ==
    IF k > Len(words) THEN [kind |-> "none"]
    ELSE IF Len(words[k]) <= 3 THEN WordMatch(names, words, k + 1)
    ELSE With(str_contains(names, words[k], TRUE), LAMBDA m :
            IF m.kind = "raise" THEN m
            ELSE IF m.rows # {} THEN Return(Min(m.rows))
            ELSE WordMatch(names, words, k + 1))

ClassColumns == <<"chemical_class", "therapeutic_class", "action_class">>

\* for column in ['Chemical Class', 'Therapeutic Class', 'Action Class']
RECURSIVE ColumnMatch(_, _, _)
ColumnMatch(df, clean_search, k) ==
    IF k > Len(ClassColumns) THEN [kind |-> "none"]
    ELSE With(str_contains(str_lower(Column(df, ClassColumns[k])), clean_search, TRUE), LAMBDA m :
            IF m.kind = "raise" THEN m
            ELSE IF m.rows # {} THEN Return(Min(m.rows))
            ELSE ColumnMatch(df, clean_search, k + 1))

\* find_medicine_index that gives up after the match on the whole term
find_medicine_index_strict(self, medicine_name) ==
    With(lower(strip(split(medicine_name, "(")[1])), LAMBDA clean_search :
    With(str_contains(str_lower(Column(self.df, "name")), clean_search, TRUE), LAMBDA m :
        IF m.kind = "raise" THEN m
        ELSE IF m.rows # {} THEN Return(Min(m.rows))
        ELSE Raise("ValueError")))

\* MedicineRecommender.find_medicine_index(medicine_name)
find_medicine_index(self, medicine_name) ==
    With(lower(strip(split(medicine_name, "(")[1])), LAMBDA clean_search :
    With(str_lower(Column(self.df, "name")), LAMBDA names :
    With(str_contains(names, clean_search, TRUE), LAMBDA contains_match :
        IF contains_match.kind = "raise" THEN contains_match
        ELSE IF contains_match.rows # {} THEN Return(Min(contains_match.rows))
        ELSE With(WordMatch(names, split_words(clean_search), 1), LAMBDA word_match :
                IF word_match.kind # "none" THEN word_match
                ELSE With(ColumnMatch(self.df, clean_search, 1), LAMBDA column_match :
                        IF column_match.kind # "none" THEN column_match
                        ELSE Raise("ValueError"))))))

\* numpy argsort (ascending); ties tells how this build orders equal values
RECURSIVE argsort(_, _, _)
argsort(S, a, ties) ==
    IF S = {} THEN <<>>
    ELSE LET first == CHOOSE i \in S : \A j \in S \ {i} :
                          \/ SimLess(a[i], a[j])
                          \/ /\ SimEq(a[i], a[j])
                             /\ IF ties = "low_index_first" THEN i < j ELSE i > j
         IN  <<first>> \o argsort(S \ {first}, a, ties)

\* the locals of get_similar_medicines: med_idx, similarity_scores and
\* similar_indices, or how the function left before computing them
similar_locals(self, medicine_name, n_recommendations, ties) ==
    With(str_contains(Column(self.df, "name"), medicine_name, FALSE), LAMBDA matches :
        IF matches.kind = "raise" THEN [outcome |-> "except", error |-> matches.error]
        ELSE IF matches.rows = {} THEN [outcome |-> "empty"]
        ELSE With(Min(matches.rows), LAMBDA med_idx :
             With([i \in 1..Len(self.df) |->
                      Cosine(self.tfidf_matrix[med_idx], self.tfidf_matrix[i])], LAMBDA similarity_scores :
                [ outcome           |-> "ranked",
                  med_idx           |-> med_idx,
                  similarity_scores |-> similarity_scores,
                  similar_indices   |->
                      Slice(Reverse(argsort(1..Len(self.df), similarity_scores, ties)),
                            1, n_recommendations + 1) ])))

recommendation(row, score) ==
    [ name              |-> str(row.name),
      chemical_class    |-> str(row.chemical_class),
      therapeutic_class |-> str(row.therapeutic_class),
      action_class      |-> str(row.action_class),
      uses              |-> <<str(row.use0), str(row.use1), str(row.use2)>>,
      similarity_score  |-> score ]

\* MedicineRecommender.get_similar_medicines(medicine_name, n_recommendations)
get_similar_medicines(self, medicine_name, n_recommendations, ties) ==
    With(similar_locals(self, medicine_name, n_recommendations, ties), LAMBDA l :
        IF l.outcome # "ranked" THEN <<>>
        ELSE [k \in 1..Len(l.similar_indices) |->
                 recommendation(self.df[l.similar_indices[k]],
                                l.similarity_scores[l.similar_indices[k]])])

\* ------------------------------------------------------------------ main.py: the process
No_information == <<"N", "o", " ", "i", "n", "f", "o", "r", "m", "a", "t", "i", "o", "n">>

\* what get_side_effects returns when nothing matches or an exception is caught
NoInformation(medicine_name) ==
    [ name              |-> medicine_name,
      side_effects      |-> <<>>,
      habit_forming     |-> No_information,
      chemical_class    |-> No_information,
      therapeutic_class |-> No_information,
      substitutes       |-> <<>> ]

\* the cells that are not NaN and not blank, stripped
Stripped(cells) ==
    LET kept(c) == c # NaN /\ strip(c) # <<>>
        some    == SelectSeq(cells, kept)
    IN  [k \in 1..Len(some) |-> strip(some[k])]

\* MedicineRecommender.get_side_effects(medicine_name)
get_side_effects(self, medicine_name) ==
    With(str_contains(Column(self.df, "name"), medicine_name, FALSE), LAMBDA matches :
        IF matches.kind = "raise" THEN NoInformation(medicine_name)
        ELSE IF matches.rows = {} THEN NoInformation(medicine_name)
        ELSE With(self.df[Min(matches.rows)], LAMBDA medicine_data :
                [ name              |-> str(medicine_data.name),
                  side_effects      |-> Stripped(medicine_data.sideEffect),
                  habit_forming     |-> str(medicine_data.habit_forming),
                  chemical_class    |-> str(medicine_data.chemical_class),
                  therapeutic_class |-> str(medicine_data.therapeutic_class),
                  substitutes       |-> Stripped(medicine_data.substitute) ]))

SIMILAR_DEFAULT == 5

\* ml_service = MedicineRecommender() at import: an exception ends the process
InitMlService ==
    /\ app = "main.py"
    /\ pc = "import_ml_service"
    /\ LET made == MedicineRecommender(medicines_csv)
       IN  IF made.kind = "raise"
           THEN pc' = "crashed" /\ UNCHANGED ml_service
           ELSE pc' = "idle" /\ ml_service' = made
    /\ UNCHANGED <<envVars, frame, frontendVars, req, resp, backendVars, medicines_csv, fits, ghostVars>>

\* GET /recommendations/{medicine_name}
main_get_recommendations(medicine_name) ==
    /\ app = "main.py"
    /\ Respond([op |-> "GET /recommendations", medicine_name |-> medicine_name],
               LET recommendations ==
                       get_similar_medicines(ml_service, medicine_name, SIMILAR_DEFAULT, numpy_ties)
               IN  IF recommendations = <<>>
                   THEN [kind |-> "http", status |-> 404, detail |-> "Medicine not found"]
                   ELSE [kind |-> "http", status |-> 200, body |-> recommendations])

\* GET /side-effects/{medicine_name}
main_get_side_effects(medicine_name) ==
    /\ app = "main.py"
    /\ Respond([op |-> "GET /side-effects", medicine_name |-> medicine_name],
               LET side_effects == get_side_effects(ml_service, medicine_name)
               IN  IF side_effects.side_effects = <<>>
                   THEN [kind |-> "http", status |-> 404, detail |-> "Medicine not found"]
                   ELSE [kind |-> "http", status |-> 200, body |-> side_effects])

\* a call ml_service.get_similar_medicines(medicine_name, n_recommendations)
CallGetSimilarMedicines(medicine_name, n) ==
    /\ app = "main.py"
    /\ workload = "similar"
    /\ Respond([op |-> "get_similar_medicines", medicine_name |-> medicine_name,
                n_recommendations |-> n],
               [kind   |-> "list",
                body   |-> get_similar_medicines(ml_service, medicine_name, n, numpy_ties),
                locals |-> similar_locals(ml_service, medicine_name, n, numpy_ties)])

\* a call ml_service.find_medicine_index(medicine_name)
CallFindMedicineIndex(medicine_name) ==
    /\ app = "main.py"
    /\ workload = "similar"
    /\ Respond([op |-> "find_medicine_index", medicine_name |-> medicine_name],
               find_medicine_index(ml_service, medicine_name))

\* ---------------------------------------------------- pricing_service.py
\* the names bound in the module: its two imports and its class
PricingGlobals == {"random", "Dict", "List", "Optional", "PricingService"}

PHARMACIES == <<"CVS Pharmacy", "Walgreens", "Walmart Pharmacy", "Rite Aid", "Costco Pharmacy">>

\* what the three sources and random.choice would give if they were called:
\* prices are in cents; the pharmacy source gives one price per pharmacy, or
\* [] from its except; the other two a dict, or None from theirs
PricingOutcomes ==
    [ goodrx     : {None, [lowest_price |-> 8, average_price |-> 10, highest_price |-> 12]},
      pharmacy   : {<<>>} \cup
                   { [k \in 1..Len(PHARMACIES) |-> [pharmacy |-> PHARMACIES[k], price |-> f[k]]] :
                        f \in [1..Len(PHARMACIES) -> 1..MaxPrice] },
      insurance  : {None, [covered |-> FALSE]},
      is_generic : BOOLEAN ]

\* the dict of the except branch
DefaultPricing ==
    [ average_price |-> 0, lowest_price |-> 0, highest_price |-> 0,
      price_sources |-> <<>>, goodrx_data |-> None, insurance_data |-> None,
      is_generic |-> FALSE ]

Max(S) == CHOOSE x \in S : \A y \in S : y <= x

\* round(a / b, 2) of an amount in cents
RoundDiv(a, b) == (2 * a + b) \div (2 * b)

\* PricingService.get_combined_pricing(medication_name).  The name asyncio is
\* looked up first, in line 96, and the module never binds it: NameError,
\* before any source is called, and the except returns the default dict.
get_combined_pricing(medication_name, outcome) ==
    IF "asyncio" \notin PricingGlobals THEN DefaultPricing
    ELSE
        LET pharmacy_prices == outcome.pharmacy
            prices          == [k \in 1..Len(pharmacy_prices) |-> pharmacy_prices[k].price]
            goodrx_data     == outcome.goodrx
        IN  [ average_price |-> IF pharmacy_prices # <<>> THEN RoundDiv(Sum(prices), Len(prices))
                                ELSE IF goodrx_data # None THEN goodrx_data.average_price ELSE 0,
              lowest_price  |-> IF pharmacy_prices # <<>> THEN Min(Range(prices))
                                ELSE IF goodrx_data # None THEN goodrx_data.lowest_price ELSE 0,
              highest_price |-> IF pharmacy_prices # <<>> THEN Max(Range(prices))
                                ELSE IF goodrx_data # None THEN goodrx_data.highest_price ELSE 0,
              price_sources |-> pharmacy_prices,
              goodrx_data   |-> goodrx_data,
              insurance_data |-> outcome.insurance,
              is_generic    |-> outcome.is_generic ]

\* a call PricingService.get_combined_pricing(medication_name)
CallGetCombinedPricing(medication_name, outcome) ==
    /\ app = "main.py"
    /\ workload = "pricing"
    /\ Respond([op |-> "get_combined_pricing", medication_name |-> medication_name,
                outcome |-> outcome],
               [kind |-> "dict", result |-> get_combined_pricing(medication_name, outcome)])

\* ------------------------------------------------- main.py and RxNorm
SEARCH_LIMIT == 10

\* a conceptProperties entry of the RxNorm listing, the k-th, with the class
\* names RxClass holds for it.  rxcui 0 stands for an entry without rxcui.
RxProp(k, kind) ==
    [ name    |-> DrugA,
      rxcui   |-> IF kind = "no_rxcui" THEN 0 ELSE k,
      classes |-> IF kind = "match" THEN <<rash, Pain>> ELSE <<rash>> ]

RxListing(kinds) == [drugGroup |-> TRUE,
                     conceptProperties |-> [k \in 1..Len(kinds) |-> RxProp(k, kinds[k])]]

\* what the service can hold: no drugGroup; every listing of up to MaxProps
\* entries; and listings longer than the limit of the search by MaxProps,
\* where no entry, the first and last entry, or the last MaxProps entries
\* belong to the class asked for
RxNormData ==
    {NoDrugGroup}
        \cup { RxListing(kinds) :
                  kinds \in UNION { [1..n -> {"match", "other", "no_rxcui"}] : n \in 0..MaxProps } }
        \cup { RxListing([k \in 1..(SEARCH_LIMIT + MaxProps) |->
                             IF k \in S THEN "match" ELSE "other"]) :
                  S \in { {}, {1, SEARCH_LIMIT + MaxProps},
                          (SEARCH_LIMIT + 1)..(SEARCH_LIMIT + MaxProps) } }

\* the condition_info of a result: from the RxClass reply, or as initialised
\* when the reply's status is not 200
condition_info(prop, condition, ok) ==
    IF ok
    THEN [ matches     |-> \E k \in 1..Len(prop.classes) :
                              Contains(lower(prop.classes[k]), lower(condition)),
           indications |-> [k \in 1..Len(prop.classes) |-> lower(prop.classes[k])] ]
    ELSE [matches |-> FALSE, indications |-> <<>>]

Matches(x) == "condition_info" \in DOMAIN x /\ x.condition_info.matches

\* a sort that reverses the ascending order: equal keys end up reversed
sort_then_reverse(results) ==
    Reverse(SelectSeq(results, LAMBDA x : ~Matches(x)) \o SelectSeq(results, LAMBDA x : Matches(x)))

\* results.sort(key=matches, reverse=True): list.sort is stable, also when
\* reversed, so the matching results come first and each group keeps its order
sort_matches_first(results) ==
    SelectSeq(results, LAMBDA x : Matches(x)) \o SelectSeq(results, LAMBDA x : ~Matches(x))

\* the handler went on to a response, or to its next requests.get
Done(response) == [done |-> TRUE, response |-> response]
Waiting(f) == [done |-> FALSE, frame |-> f]
Http(status, detail) == [kind |-> "http", status |-> status, detail |-> detail]

\* search_medications from the top of its loop over conceptProperties: the
\* next entry with an rxcui is looked up, and after the last one the results
\* are sorted, cut and returned
SearchNext(f) ==
    LET with_rxcui == { k \in 1..Len(f.todo) : f.todo[k].rxcui # 0 }
    IN  IF with_rxcui = {}
        THEN Done([kind |-> "http", status |-> 200,
                   body |-> Slice(IF f.condition # EmptyStr /\ f.results # <<>>
                                  THEN sort_matches_first(f.results) ELSE f.results,
                                  0, SEARCH_LIMIT),
                   locals |-> [results |-> f.results]])
        ELSE Waiting([f EXCEPT !.stage = "details",
                               !.prop  = f.todo[Min(with_rxcui)],
                               !.todo  = SubSeq(f.todo, Min(with_rxcui) + 1, Len(f.todo))])

\* search_medications resumed by the return of requests.get
SearchResume(f, outcome) ==
    IF outcome = "exception" THEN Done(Http(500, "requests"))
    ELSE IF f.stage = "drugs" THEN
        IF outcome = "status_error" THEN Done(Http(500, "raise_for_status"))
        ELSE IF ~rxnorm.drugGroup
        THEN Done([kind |-> "http", status |-> 200, body |-> <<>>, locals |-> [results |-> <<>>]])
        ELSE SearchNext([f EXCEPT !.todo = rxnorm.conceptProperties])
    ELSE IF f.stage = "details" THEN
        IF f.condition # EmptyStr
        THEN Waiting([f EXCEPT !.stage = "indication", !.details = (outcome = "ok")])
        ELSE SearchNext([f EXCEPT !.results = Append(@,
                            [name |-> f.prop.name, rxcui |-> f.prop.rxcui,
                             details |-> (outcome = "ok")])])
    ELSE SearchNext([f EXCEPT !.results = Append(@,
                        [name |-> f.prop.name, rxcui |-> f.prop.rxcui, details |-> f.details,
                         condition_info |-> condition_info(f.prop, f.condition, outcome = "ok")])])

\* analyze_medication resumed by the return of requests.get: in
\* get_rxnorm_details, whose None makes the handler raise the 404 that its own
\* except Exception turns into a 500 carrying str(e).  The pricing calls that
\* follow reach no service and their result is in no field of the response;
\* the allrelated reply is taken to hold no SBD or SCD group.
AnalyzeResume(f, outcome, str_e) ==
    IF outcome = "exception" THEN Done(Http(500, "requests"))
    ELSE IF f.stage = "drugs" THEN
        IF outcome = "status_error" THEN Done(Http(500, "raise_for_status"))
        ELSE IF ~rxnorm.drugGroup \/ rxnorm.conceptProperties = <<>> THEN Done(Http(500, str_e))
        ELSE IF rxnorm.conceptProperties[1].rxcui = 0 THEN Done(Http(500, "KeyError"))
        ELSE Waiting([f EXCEPT !.stage = "related", !.prop = rxnorm.conceptProperties[1]])
    ELSE Done([kind |-> "http", status |-> 200,
               body |-> [ medication_details |-> [name |-> f.prop.name, rxcui |-> f.prop.rxcui],
                          alternatives       |-> <<>> ]])

\* GET /search?query=..&condition=..: runs to its first requests.get.  An
\* absent condition and an empty one are both EmptyStr: the handler tests
\* "if condition".
main_search_medications(query, condition) ==
    /\ app = "main.py"
    /\ workload = "rxnorm"
    /\ pc = "idle"
    /\ pc' = "in_requests_get"
    /\ req' = [op |-> "GET /search", query |-> query, condition |-> condition]
    /\ frame' = [ handler |-> "search", stage |-> "drugs", condition |-> condition,
                  todo |-> <<>>, prop |-> RxProp(0, "no_rxcui"), details |-> FALSE,
                  results |-> <<>>, faults |-> 0 ]
    /\ UNCHANGED <<envVars, frontendVars, resp, backendVars, mainVars, fits, ghostVars>>

\* POST /analyze: runs to the first requests.get of get_rxnorm_details
analyze_medication(drug_name) ==
    /\ app = "main.py"
    /\ workload = "rxnorm"
    /\ pc = "idle"
    /\ pc' = "in_requests_get"
    /\ req' = [op |-> "POST /analyze", drug_name |-> drug_name]
    /\ frame' = [ handler |-> "analyze", stage |-> "drugs", drug_name |-> drug_name,
                  prop |-> RxProp(0, "no_rxcui"), faults |-> 0 ]
    /\ UNCHANGED <<envVars, frontendVars, resp, backendVars, mainVars, fits, ghostVars>>

\* what str() gives for the HTTPException(404): its status and detail, or
\* nothing in a Starlette that defines no __str__ for it
HTTPExceptionStr == {"404: Medication not found", ""}

\* requests.get returns in the handler that waits in it: with a 200, with
\* another status, or by raising.  No timeout is passed, so nothing else ends
\* the wait.  The consecutive calls of get_drug_details, and the two of
\* get_rxnorm_details after the first, return as one.
requests_get_returns(outcome, str_e) ==
    /\ pc = "in_requests_get"
    /\ outcome # "ok" => frame.faults < MaxFaults
    /\ LET f    == IF outcome = "ok" THEN frame ELSE [frame EXCEPT !.faults = @ + 1]
           then == IF f.handler = "search" THEN SearchResume(f, outcome)
                   ELSE AnalyzeResume(f, outcome, str_e)
       IN  IF then.done
           THEN pc' = "responded" /\ resp' = then.response /\ frame' = NoFrame
           ELSE pc' = pc /\ resp' = resp /\ frame' = then.frame
    /\ UNCHANGED <<envVars, frontendVars, req, backendVars, mainVars, fits, ghostVars>>

\* the medicines corpus of the runs that are about other things
SmallMedicinesFile ==
    File(<<MedicineRow(DrugA, Amide, Analgesic, Blocker), MedicineRow(DrugB, NaN, Analgesic, NaN)>>)

InitMain ==
    /\ app = "main.py"
    /\ \/ /\ workload = "similar"
          /\ numpy_ties \in {"low_index_first", "high_index_first"}
          /\ medicines_csv \in {Missing} \cup { File(c) : c \in CorporaOf(MedicineRows, 1, MaxRows) }
          /\ rxnorm = NoDrugGroup
       \/ /\ workload = "pricing"
          /\ numpy_ties = "low_index_first"
          /\ medicines_csv = SmallMedicinesFile
          /\ rxnorm = NoDrugGroup
       \/ /\ workload = "rxnorm"
          /\ numpy_ties = "low_index_first"
          /\ medicines_csv = SmallMedicinesFile
          /\ rxnorm \in RxNormData
    /\ frame = NoFrame
    /\ session_state = Unset
    /\ added = <<>>
    /\ pc = "import_ml_service"
    /\ req = NoReq
    /\ resp = NoResp
    /\ drugs_csv = Missing
    /\ medicare_csv = Missing
    /\ anthropometric_csv = Missing
    /\ nutritional_model = Unset
    /\ fits = NoFits
    /\ earlier = NoCall
    /\ inflight = NoInflight
    /\ trainer = Unset
    /\ drug_recommender = Unset
    /\ startup_analyzer = Unset
    /\ analyzer = Unset
    /\ ml_service = Unset

NextMain ==
    \/ InitMlService
    \/ \E m \in MedicineQueries : main_get_recommendations(m)
    \/ \E m \in MedicineQueries : main_get_side_effects(m)
    \/ \E m \in MedicineQueries, n \in 1..MaxN : CallGetSimilarMedicines(m, n)
    \/ \E m \in MedicineQueries : CallFindMedicineIndex(m)
    \/ \E m \in {DrugA}, o \in PricingOutcomes : CallGetCombinedPricing(m, o)
    \/ \E c \in {EmptyStr, Pain} : main_search_medications(DrugA, c)
    \/ analyze_medication(DrugA)
    \/ \E o \in {"ok", "status_error", "exception"}, e \in HTTPExceptionStr :
           requests_get_returns(o, e)
    \/ Reply

SpecMain == InitMain /\ [][NextMain]_vars

\* the event loop sends a response that a handler has returned; nothing
\* makes a request arrive or the RxNorm service reply
SpecMainFair == SpecMain /\ WF_vars(Reply)

\* ------------------------------------------------------------------ either program
\* ---------------------------------------------------- Frontend/app.py
RECENT_LIMIT == 10

\* the dicts save_medication can be given: one in a run about the recent
\* searches, three in a run about the saved medications
Medications ==
    IF workload = "saved" THEN { [name |-> n] : n \in {DrugA, DrugB, DrugC} }
    ELSE { [name |-> DrugA] }

\* the search dict add_to_recent_searches builds; the clock gives one minute
search_entry(medication, condition, dosage) ==
    [ medication |-> medication, condition |-> condition, dosage |-> dosage,
      timestamp |-> "2024-03-20 10:00" ]

\* the top of the script: the two lists are created when the session is new
session_init ==
    /\ app = "Frontend/app.py"
    /\ pc = "script"
    /\ session_state' = [saved_medications |-> <<>>, recent_searches |-> <<>>]
    /\ pc' = "idle"
    /\ UNCHANGED <<envVars, frame, added, req, resp, backendVars, mainVars, fits, ghostVars>>

\* one call of a function of the script; req names the call
Called(request) ==
    /\ app = "Frontend/app.py"
    /\ pc = "idle"
    /\ req' = request
    /\ UNCHANGED <<envVars, frame, pc, resp, backendVars, mainVars, fits, ghostVars>>

\* add_to_recent_searches keeping the last ten entries of the list
add_to_recent_searches_tail(medication, condition, dosage) ==
    /\ workload = "recent"
    /\ Len(added) < MaxAdds
    /\ Called([op |-> "add_to_recent_searches", medication |-> medication])
    /\ LET search   == search_entry(medication, condition, dosage)
           inserted == <<search>> \o session_state.recent_searches
       IN  /\ session_state' = [session_state EXCEPT !.recent_searches =
                                   SubSeq(inserted, Len(inserted) - Min({Len(inserted), RECENT_LIMIT}) + 1,
                                          Len(inserted))]
           /\ added' = <<search>> \o added

\* add_to_recent_searches(medication, condition, dosage): insert(0, search),
\* then [:10]
add_to_recent_searches(medication, condition, dosage) ==
    /\ workload = "recent"
    /\ Len(added) < MaxAdds
    /\ Called([op |-> "add_to_recent_searches", medication |-> medication])
    /\ LET search == search_entry(medication, condition, dosage)
       IN  /\ session_state' = [session_state EXCEPT !.recent_searches =
                                   Slice(<<search>> \o @, 0, RECENT_LIMIT)]
           /\ added' = <<search>> \o added

\* clear_recent_searches()
clear_recent_searches ==
    /\ workload = "recent"
    /\ Called([op |-> "clear_recent_searches"])
    /\ session_state' = [session_state EXCEPT !.recent_searches = <<>>]
    /\ added' = <<>>

\* save_medication without the membership test
save_medication_again(medication) ==
    /\ Called([op |-> "save_medication", medication |-> medication])
    /\ Len(session_state.saved_medications) < Cardinality(Medications) + 1
    /\ session_state' = [session_state EXCEPT !.saved_medications = Append(@, medication)]
    /\ UNCHANGED added

\* save_medication(medication): appended when not in the list, and the script
\* reruns
save_medication(medication) ==
    /\ Called([op |-> "save_medication", medication |-> medication])
    /\ session_state' = IF medication \notin Range(session_state.saved_medications)
                        THEN [session_state EXCEPT !.saved_medications = Append(@, medication)]
                        ELSE session_state
    /\ UNCHANGED added

\* list.remove(x): the list without the first item equal to x
list_remove(s, x) ==
    LET first == Min({ k \in 1..Len(s) : s[k] = x })
    IN  SubSeq(s, 1, first - 1) \o SubSeq(s, first + 1, Len(s))

\* remove_saved_medication(medication)
remove_saved_medication(medication) ==
    /\ Called([op |-> "remove_saved_medication", medication |-> medication])
    /\ session_state' = IF medication \in Range(session_state.saved_medications)
                        THEN [session_state EXCEPT !.saved_medications = list_remove(@, medication)]
                        ELSE session_state
    /\ UNCHANGED added

InitFrontend ==
    /\ app = "Frontend/app.py"
    /\ workload \in {"recent", "saved"}
    /\ numpy_ties = "low_index_first"
    /\ rxnorm = NoDrugGroup
    /\ pc = "script"
    /\ session_state = Unset
    /\ added = <<>>
    /\ frame = NoFrame
    /\ req = NoReq
    /\ resp = NoResp
    /\ drugs_csv = Missing
    /\ medicare_csv = Missing
    /\ anthropometric_csv = Missing
    /\ medicines_csv = Missing
    /\ nutritional_model = Unset
    /\ trainer = Unset
    /\ drug_recommender = Unset
    /\ startup_analyzer = Unset
    /\ analyzer = Unset
    /\ ml_service = Unset
    /\ fits = NoFits
    /\ earlier = NoCall
    /\ inflight = NoInflight

NextFrontend ==
    \/ session_init
    \/ \E m \in {DrugA, DrugB} : add_to_recent_searches(m, EmptyStr, EmptyStr)
    \/ clear_recent_searches
    \/ \E m \in Medications : save_medication(m)
    \/ \E m \in Medications : remove_saved_medication(m)

SpecFrontend == InitFrontend /\ [][NextFrontend]_vars

Init == InitBackend \/ InitMain \/ InitFrontend

Next == NextBackend \/ NextMain \/ NextFrontend

Spec == Init /\ [][Next]_vars

\* ================================================================== claims
Names(df, index) == [k \in 1..Len(index) |-> df[index[k]].drug_name]

\* the row a name stands for in the drug recommender: the first with that name
FirstNamed(df, drug_name) == Min({ i \in 1..Len(df) : df[i].drug_name = drug_name })

IsRecommendation ==
    /\ pc = "responded"
    /\ req.op = "get_recommendations"
    /\ resp.kind = "DataFrame"

\* C1: the rows get_recommendations returns are in non-increasing cosine
\* similarity to the queried row, and two returned rows of equal similarity
\* are in corpus row order.
C1_RecommendationsOrdered ==
    IsRecommendation =>
        LET sim == drug_recommender.cosine_sim[FirstNamed(drug_recommender.df, req.drug_name)]
        IN  \A k, l \in 1..Len(resp.index) :
                k < l =>
                    /\ ~SimLess(sim[resp.index[k]], sim[resp.index[l]])
                    /\ SimEq(sim[resp.index[k]], sim[resp.index[l]])
                           => resp.index[k] < resp.index[l]

\* two rows tied in similarity are returned, after a row of higher similarity
\* was ranked above them
C1_Witness ==
    /\ IsRecommendation
    /\ Len(resp.index) >= 2
    /\ LET sim == drug_recommender.cosine_sim[FirstNamed(drug_recommender.df, req.drug_name)]
       IN  /\ SimEq(sim[resp.index[1]], sim[resp.index[2]])
           /\ \E i \in 1..Len(drug_recommender.df) : SimLess(sim[resp.index[1]], sim[i])

IsScenario ==
    /\ IsRecommendation
    /\ drugs_csv = File(ScenarioCorpus)
    /\ req.drug_name = DrugA

\* C4: on the corpus DrugA (nausea, dizziness), DrugB (nausea, headache),
\* DrugC (rash), get_recommendations("DrugA", 1) returns exactly DrugB and
\* get_recommendations("DrugA", 2) returns DrugB, then DrugC.
C4_Scenario ==
    IsScenario =>
        /\ req.n_recommendations = 1 => Names(drug_recommender.df, resp.index) = <<DrugB>>
        /\ req.n_recommendations = 2 => Names(drug_recommender.df, resp.index) = <<DrugB, DrugC>>

C4_Witness ==
    /\ IsScenario
    /\ req.n_recommendations = 2
    /\ Len(resp.index) = 2

\* no row of the corpus has this name, in any letter case, as its name or as
\* a part of it
Absent(rows, name) ==
    \A i \in 1..Len(rows) : ~Contains(lower(rows[i].drug_name), lower(name))

\* C7: with the medication model trained, the alternatives of a medication
\* name absent from the corpus are the empty list.
C7_AbsentGivesEmpty ==
    ( /\ pc = "responded"
      /\ req.op = "GET /medications/alternatives"
      /\ trainer.medication # None
      /\ Absent(drugs_csv.rows, req.medication_name) )
    => resp.status = 200 /\ resp.body = <<>>

\* C8: the alternatives of a medication of the corpus (here: the name of
\* exactly one row) do not hold that medication, and hold every other result
\* of the search.
C8_AlternativesExcludeQueried ==
    ( /\ pc = "responded"
      /\ req.op = "GET /medications/alternatives"
      /\ drugs_csv.exists
      /\ Cardinality({ i \in 1..Len(drugs_csv.rows) :
                          drugs_csv.rows[i].drug_name = req.medication_name }) = 1 )
    => resp.body = SelectSeq(search_medications(trainer, req.medication_name, numpy_ties),
                             LAMBDA r : r.name # req.medication_name)

AllZero == [k \in Range(RequestFeatures) |-> 0]

\* C9: after a startup in which the spending model trained, POST
\* /api/predict-spending with the five features at zero answers with
\* status success and a number.
C9_AllZeroSucceeds ==
    ( /\ pc = "responded"
      /\ req.op = "POST /api/predict-spending"
      /\ startup_analyzer.model # None
      /\ req.features = AllZero )
    => /\ resp.status = 200
       /\ resp.body.status = "success"
       /\ resp.body.predicted_total_spending \in Int

AbsentFeatures(d) == { f \in Range(RequestFeatures) : f \notin DOMAIN d }

IsServiceCall == pc = "responded" /\ req.op = "predict_spending"
IsSpendingPost == pc = "responded" /\ req.op = "POST /api/predict-spending"

\* C10 as stated: a spending request that lacks a feature ends, at the
\* service and at the handler, in a client-error outcome naming a missing
\* field.
C10_MissingFeatureNamed ==
    /\ (IsServiceCall /\ AbsentFeatures(req.features) # {})
          => resp.result.status = "error" /\ resp.result.error \in AbsentFeatures(req.features)
    /\ (IsSpendingPost /\ AbsentFeatures(req.features) # {})
          => resp.status \in {400, 422} /\ resp.fields \subseteq AbsentFeatures(req.features)
                /\ resp.fields # {}

\* C10 amended: a spending request that lacks a feature never succeeds.  The
\* service, when its model is trained, returns status error with the first
\* absent feature (in the order total_claims, total_beneficiaries,
\* total_dosage_units, avg_spending_per_claim, avg_spending_per_beneficiary)
\* as the error; when its model is not trained the error is "Model not
\* trained yet".  The handler answers 422 and names every absent feature.
C10_MissingFeatureRejected ==
    /\ (IsServiceCall /\ AbsentFeatures(req.features) # {})
          => /\ resp.result.status = "error"
             /\ resp.result.error =
                  IF startup_analyzer.model = None THEN "Model not trained yet"
                  ELSE RequestFeatures[Min({ k \in 1..5 : RequestFeatures[k] \in AbsentFeatures(req.features) })]
    /\ (IsSpendingPost /\ AbsentFeatures(req.features) # {})
          => resp.status = 422 /\ resp.fields = AbsentFeatures(req.features)

C10_Witness ==
    /\ IsServiceCall
    /\ startup_analyzer.model # None
    /\ Cardinality(AbsentFeatures(req.features)) = 2
    /\ resp.result.status = "error"

IsSimilarCall ==
    /\ pc = "responded"
    /\ req.op = "get_similar_medicines"
    /\ resp.locals.outcome = "ranked"

\* C2: the entries get_similar_medicines returns for a name that matches a
\* row are in non-increasing similarity_score order, and two returned
\* entries of equal score are in corpus row order.
C2_SimilarOrdered ==
    IsSimilarCall =>
        LET rows  == resp.locals.similar_indices
            score == resp.locals.similarity_scores
        IN  \A k, l \in 1..Len(rows) :
                k < l =>
                    /\ ~SimLess(score[rows[k]], score[rows[l]])
                    /\ SimEq(score[rows[k]], score[rows[l]]) => rows[k] < rows[l]

\* C3: the result of get_recommendations and of get_similar_medicines for a
\* name that resolves to row r never holds row r.
C3_SelfExcluded ==
    /\ IsRecommendation =>
          \A k \in 1..Len(resp.index) :
              resp.index[k] # FirstNamed(drug_recommender.df, req.drug_name)
    /\ IsSimilarCall =>
          \A k \in 1..Len(resp.locals.similar_indices) :
              resp.locals.similar_indices[k] # resp.locals.med_idx

\* the rows whose name equals or contains the text, ignoring letter case
Containing(names, text) ==
    { i \in 1..Len(names) : names[i] # NaN /\ Contains(lower(names[i]), lower(text)) }

\* letters, digits, "_" and spaces only
PlainText(s) == \A i \in 1..Len(s) : s[i] \in WordChars \cup {" "}

IsFindCall == pc = "responded" /\ req.op = "find_medicine_index"

SearchTerm(medicine_name) == lower(strip(split(medicine_name, "(")[1]))

IsDrugRecommendationsGet == pc = "responded" /\ req.op = "GET /api/drug-recommendations"
IsRecommendationsGet == pc = "responded" /\ req.op = "GET /recommendations"

DrugNames == IF drugs_csv.exists THEN Column(drugs_csv.rows, "drug_name") ELSE <<>>

LongWords(term) == { w \in Range(split_words(term)) : Len(w) > 3 }

\* the row is one a fallback of find_medicine_index can give for the term
FallbackRow(df, term, i) ==
    \/ \E w \in LongWords(term) : i \in Containing(Column(df, "name"), w)
    \/ \E k \in 1..Len(ClassColumns) : i \in Containing(Column(df, ClassColumns[k]), term)

IsMetricsCall == pc = "responded" /\ req.op = "predict_metrics"
IsHealthPredict == pc = "responded" /\ req.op = "GET /health/predict"

\* C11: after train_models has trained the four targets, predict_metrics
\* with all eight measurements returns a value for each of weight, body_fat,
\* muscle_mass and visceral_fat.
C11_PredictsEveryTarget ==
    /\ ( /\ IsMetricsCall
         /\ DOMAIN nutritional_model.models = Range(TargetNames)
         /\ DOMAIN req.input_data = Range(feature_columns) )
       => DOMAIN resp.result = Range(TargetNames)
    /\ ( /\ IsHealthPredict
         /\ DOMAIN nutritional_model.models = Range(TargetNames)
         /\ DOMAIN req.params = Range(QueryParams) )
       => resp.status = 200 /\ DOMAIN resp.body = Range(TargetNames)

IsSearch == pc = "responded" /\ req.op = "GET /search/medications"

\* C12: a search or predict call on a model that is not trained ends in an
\* error outcome, never in an empty list, an empty dict or a zero: for
\* search_medications, predict_metrics and predict_spending.
C12_UntrainedIsError ==
    /\ (IsSearch /\ trainer.medication = None)
       => ~(resp.status = 200 /\ resp.body = <<>>)
    /\ (IsMetricsCall /\ DOMAIN nutritional_model.models = {})
       => DOMAIN resp.result # {}
    /\ (IsServiceCall /\ startup_analyzer.model = None)
       => resp.result.status = "error"

\* C13: when a startup CSV is missing, the component that reads it never
\* serves a request: the medication search, the drug recommender, the
\* nutritional models and the spending analyzer.
C13_MissingCsvAborts ==
    pc = "responded" =>
        /\ (~drugs_csv.exists /\ req.op \in {"GET /search/medications", "GET /medications/alternatives"})
           => resp.status # 200
        /\ (~drugs_csv.exists /\ req.op = "GET /api/drug-recommendations")
           => resp.status = "error"
        /\ (~anthropometric_csv.exists /\ req.op = "GET /health/predict"
                /\ DOMAIN req.params = Range(QueryParams))
           => resp.status # 200
        /\ (~medicare_csv.exists /\ req.op = "POST /api/predict-spending")
           => resp.status # 200

Serving == pc \in {"idle", "responded"}

\* C14: in a run of the backend a fit is called at most once for each
\* model, and once the process serves requests no step calls a fit.
C14_FitOnceBeforeRequests ==
    /\ [](\A m \in FitNames : fits[m] <= 1)
    /\ [][Serving => fits' = fits]_vars

\* a request was answered after every model of the backend was fitted
C14_Witness ==
    /\ app = "Backend/main.py"
    /\ pc = "responded"
    /\ \A m \in FitNames : fits[m] = 1

\* the request being answered was answered before in this run
Repeated == pc = "responded" /\ earlier.req = req

SearchOps ==
    { "GET /search/medications", "GET /medications/alternatives",
      "GET /api/drug-recommendations", "get_recommendations",
      "GET /recommendations", "get_similar_medicines", "find_medicine_index",
      "GET /side-effects" }

\* the step that serves one request of the operations in ops
Serves(ops) == pc = "idle" /\ pc' = "responded" /\ req'.op \in ops

\* C17: a search or recommendation call, succeeding or failing, leaves the
\* corpus, the fitted vectorizer and the vectorized or similarity matrix as
\* they were.
C17_SearchWritesNothing ==
    [][Serves(SearchOps) =>
          UNCHANGED <<drugs_csv, medicines_csv, trainer, drug_recommender, ml_service>>]_vars

\* a search was served by a trained model, and side effects by a loaded corpus
C17_Witness ==
    /\ pc = "responded"
    /\ \/ /\ req.op = "GET /search/medications"
          /\ trainer.medication # None
          /\ resp.body # <<>>
       \/ /\ req.op = "GET /side-effects"
          /\ resp.status = 200

\* the operations that predict
PredictOps ==
    { "predict_spending", "POST /api/predict-spending", "predict_metrics", "GET /health/predict" }

\* C18: a prediction call, succeeding or failing, leaves the fitted scalers
\* and the fitted estimators as training made them.
C18_PredictionWritesNothing ==
    [][Serves(PredictOps) => UNCHANGED <<startup_analyzer, analyzer, nutritional_model>>]_vars

\* a prediction was made through a fitted scaler and a fitted estimator
C18_Witness ==
    /\ pc = "responded"
    /\ req.op = "predict_spending"
    /\ startup_analyzer.scaler.fitted
    /\ startup_analyzer.model # None
    /\ resp.result.status = "success"

\* C19: after startup, however the steps of concurrently handled requests
\* interleave, no step of a request writes the models or the corpora, and the
\* response of each request is the one its handler gives when run alone on
\* the state startup left.
C19_ConcurrentReadsOnly ==
    /\ [][inflight' # inflight => UNCHANGED backendVars]_vars
    /\ [](\A c \in 1..MaxClients :
             inflight[c].stage = "handled" => inflight[c].resp = call_handler(inflight[c].req))

\* two different requests are in progress at once, both handled and neither
\* sent, one of them a search that found medications
C19_Witness ==
    \E c, d \in 1..MaxClients :
        /\ inflight[c].stage = "handled"
        /\ inflight[d].stage = "handled"
        /\ inflight[c].req # inflight[d].req
        /\ inflight[c].req.op = "GET /search/medications"
        /\ inflight[c].resp.body # <<>>

\* row i of matrix is the vector of texts[i], for every row of the corpus
RowsAligned(matrix, vectorizer, texts) ==
    /\ Len(matrix) = Len(texts)
    /\ \A i \in 1..Len(texts) : matrix[i] = Transform(vectorizer, texts[i])

\* C20: in each recommender, row i of the vectorized matrix and of the
\* similarity matrix is computed from row i of the corpus, the index a name
\* lookup returns is the position of a row with that name, and the records a
\* call returns are read at the positions its scores were read at.
C20_RowsDenoteSameRecord ==
    /\ drug_recommender \notin {Unset, None} =>
          LET self == drug_recommender
          IN  /\ RowsAligned(self.tfidf_matrix, self.tfidf,
                             [i \in 1..Len(self.df) |-> self.df[i].side_effects])
              /\ self.cosine_sim = CosineSimilarity(self.tfidf_matrix, self.tfidf_matrix)
    /\ (trainer # Unset /\ trainer.medication # None) =>
          LET m == trainer.medication
          IN  RowsAligned(m.vectors, m.vectorizer,
                          [i \in 1..Len(m.data) |->
                              fillna(m.data[i].drug_name) \o Space \o
                              fillna(m.data[i].medical_condition) \o Space \o
                              fillna(m.data[i].side_effects)])
    /\ ml_service # Unset =>
          RowsAligned(ml_service.tfidf_matrix, ml_service.tfidf,
                      [i \in 1..Len(ml_service.df) |-> combined_features(ml_service.df[i])])
    /\ (pc = "responded" /\ req.op = "get_recommendations" /\ resp.kind = "DataFrame") =>
          /\ drug_recommender.df[resp.idx].drug_name = req.drug_name
          /\ \A k \in 1..Len(resp.index) : resp.index[k] \in 1..Len(drug_recommender.df)
    /\ (pc = "responded" /\ req.op = "get_similar_medicines"
           /\ resp.locals.outcome = "ranked") =>
          LET l == resp.locals
          IN  /\ l.med_idx \in 1..Len(ml_service.df)
              /\ \A i \in 1..Len(ml_service.df) :
                    l.similarity_scores[i] =
                        Cosine(ml_service.tfidf_matrix[l.med_idx], ml_service.tfidf_matrix[i])
              /\ \A k \in 1..Len(resp.body) :
                    resp.body[k].name = str(ml_service.df[l.similar_indices[k]].name)

\* a lookup by name resolved to a row that is not the first, and rows were
\* read from the corpus at the positions of the similarity matrix
C20_Witness ==
    /\ pc = "responded"
    /\ req.op = "get_recommendations"
    /\ resp.kind = "DataFrame"
    /\ resp.idx > 1
    /\ Len(resp.index) > 0

\* the request asks one of the four lookup endpoints for a name that no row
\* of the loaded corpus equals or contains
AbsentName(request) ==
    \/ /\ request.op = "GET /api/drug-recommendations"
       /\ drug_recommender # None
       /\ Containing(DrugNames, request.drug_name) = {}
    \/ /\ request.op = "GET /medications/alternatives"
       /\ trainer.medication # None
       /\ Containing(DrugNames, request.medication_name) = {}
    \/ /\ request.op \in {"GET /recommendations", "GET /side-effects"}
       /\ PlainText(request.medicine_name)
       /\ Containing(Column(ml_service.df, "name"), request.medicine_name) = {}

\* the kind of outcome of an answer: an empty result set, a not-found error
\* (a 404, or a body of status error), or results
OutcomeKind(request, response) ==
    CASE request.op = "GET /api/drug-recommendations" ->
            IF response.status = "error" THEN "not_found" ELSE "results"
      [] request.op = "GET /medications/alternatives" ->
            IF response.body = <<>> THEN "empty" ELSE "results"
      [] request.op \in {"GET /recommendations", "GET /side-effects"} ->
            IF response.status = 404 THEN "not_found" ELSE "results"

\* C21: the endpoints that look an entity up by name answer a name absent
\* from the corpus with one kind of outcome, an empty result set or a
\* not-found error: each such answer is of one of the two kinds, and of the
\* kind of the earlier such answer of the run.
C21_AbsentOutcomeUniform ==
    (pc = "responded" /\ AbsentName(req)) =>
        /\ OutcomeKind(req, resp) \in {"empty", "not_found"}
        /\ AbsentName(earlier.req) => OutcomeKind(req, resp) = OutcomeKind(earlier.req, earlier.resp)

\* C22: when the initialisation of the drug recommender fails, the server
\* still starts (the import goes on to the startup event, which can run), and
\* every GET /api/drug-recommendations afterwards is answered with status
\* error and the message that the recommender is not initialised, and with
\* nothing else.
C22_DegradedRecommender ==
    /\ drug_recommender = None =>
          /\ pc # "crashed"
          /\ pc = "startup" => ENABLED startup_event
    /\ (IsDrugRecommendationsGet /\ drug_recommender = None) =>
          resp = [kind |-> "json", status |-> "error",
                  message |-> "Drug recommender not initialized"]

\* the recommender failed on a corpus whose side-effect cells are all empty,
\* the server started, and a request for recommendations was answered
C22_Witness ==
    /\ IsDrugRecommendationsGet
    /\ drugs_csv.exists
    /\ drug_recommender = None
    /\ resp.status = "error"

IsPricingCall == pc = "responded" /\ req.op = "get_combined_pricing"

InMemoryHandlers ==
    \E m \in MedicineQueries : main_get_recommendations(m) \/ main_get_side_effects(m)

\* C23: a handler that calls the RxNorm service responds in the end, also if
\* the service never replies, and while it waits for the service the
\* in-memory recommendation handlers can run.
C23_ThirdPartyBounded ==
    /\ (pc = "in_requests_get") ~> (pc = "responded")
    /\ [](pc = "in_requests_get" => ENABLED InMemoryHandlers)

\* the outcome of POST /analyze in which get_rxnorm_details returned None:
\* the service answered the drug search and listed no drug
IsAnalyzeOfUnknownDrug ==
    /\ pc = "responded"
    /\ req.op = "POST /analyze"
    /\ ~rxnorm.drugGroup \/ rxnorm.conceptProperties = <<>>
    /\ resp.detail \notin {"requests", "raise_for_status"}

\* C25: when the drug lookup finds no medication, POST /analyze responds 404
\* with the detail "Medication not found".
C25_UnknownDrugIs404 ==
    IsAnalyzeOfUnknownDrug => resp.status = 404 /\ resp.detail = "Medication not found"

IsMainSearch == pc = "responded" /\ req.op = "GET /search" /\ resp.status = 200

\* C27: GET /search returns at most 10 results; with a condition, the
\* matching results come before the others, results of one match status are
\* in the order RxNorm listed them, and no matching result is cut while
\* another one is kept.
C27_MatchesFirstThenCut ==
    IsMainSearch =>
        /\ Len(resp.body) <= 10
        /\ req.condition # EmptyStr =>
              /\ \A i, j \in 1..Len(resp.body) :
                    i < j => /\ ~(~Matches(resp.body[i]) /\ Matches(resp.body[j]))
                             /\ Matches(resp.body[i]) = Matches(resp.body[j])
                                   => resp.body[i].rxcui < resp.body[j].rxcui
              /\ (\E k \in 1..Len(resp.body) : ~Matches(resp.body[k])) =>
                    \A k \in 1..Len(resp.locals.results) :
                        Matches(resp.locals.results[k])
                            => resp.locals.results[k] \in Range(resp.body)

\* more results than the limit were collected, matching ones after it, and
\* the first result returned is one of those
C27_Witness ==
    /\ IsMainSearch
    /\ Len(resp.locals.results) > 10
    /\ Len(resp.body) = 10
    /\ Matches(resp.body[1]) /\ resp.body[1].rxcui > 10
    /\ ~Matches(resp.body[10])

\* the step is a call of the function named
Calls(op) == app = "Frontend/app.py" /\ pc = "idle" /\ req'.op = op

\* C29: recent_searches holds at most 10 entries, most recent first: it is
\* the 10 most recent of the searches added since the last clear, or all of
\* them when they are fewer; clear_recent_searches leaves it empty and
\* leaves saved_medications as it was.
C29_RecentSearches ==
    /\ [](pc = "idle" /\ app = "Frontend/app.py" =>
             /\ Len(session_state.recent_searches) <= 10
             /\ session_state.recent_searches = SubSeq(added, 1, Min({10, Len(added)})))
    /\ [][Calls("clear_recent_searches") =>
             /\ session_state'.recent_searches = <<>>
             /\ session_state'.saved_medications = session_state.saved_medications]_vars

\* more than ten searches were added, of two medications, with a medication
\* saved
C29_Witness ==
    /\ app = "Frontend/app.py"
    /\ Len(added) > 10
    /\ added[1] # added[Len(added)]
    /\ Len(session_state.recent_searches) = 10
    /\ session_state.saved_medications # <<>>

\* C30: saved_medications has no two equal entries; saving a saved
\* medication and removing one that is not saved change nothing; removing a
\* saved one leaves the other entries, in their order.
C30_SavedMedications ==
    /\ [](pc = "idle" /\ app = "Frontend/app.py" =>
             \A i, j \in 1..Len(session_state.saved_medications) :
                 session_state.saved_medications[i] = session_state.saved_medications[j] => i = j)
    /\ [][ /\ (Calls("save_medication") /\ req'.medication \in Range(session_state.saved_medications))
              => session_state' = session_state
           /\ (Calls("remove_saved_medication")
                  /\ req'.medication \notin Range(session_state.saved_medications))
              => session_state' = session_state
           /\ (Calls("remove_saved_medication")
                  /\ req'.medication \in Range(session_state.saved_medications))
              => /\ session_state'.saved_medications =
                        SelectSeq(session_state.saved_medications, LAMBDA m : m # req'.medication)
                 /\ session_state'.recent_searches = session_state.recent_searches ]_vars

\* a medication was removed from between two others
C30_Witness ==
    /\ app = "Frontend/app.py"
    /\ pc = "idle"
    /\ req.op = "remove_saved_medication"
    /\ req.medication = [name |-> DrugB]
    /\ session_state.saved_medications = <<[name |-> DrugA], [name |-> DrugC]>>

\* the rows of the corpus whose name contains the requested name, in any case
NamedRows(medicine_name) ==
    { i \in 1..Len(ml_service.df) :
         /\ ml_service.df[i].name # NaN
         /\ Contains(lower(ml_service.df[i].name), lower(medicine_name)) }

IsNameEndpoint ==
    /\ app = "main.py"
    /\ pc = "responded"
    /\ req.op \in {"GET /side-effects", "GET /recommendations"}

\* C26: GET /side-effects and GET /recommendations respond 404 "Medicine not
\* found" only when no row's name matches the requested name; when a row
\* matches, the response is not an error.
C26_NotFoundOnlyWhenAbsent ==
    (IsNameEndpoint /\ NamedRows(req.medicine_name) # {}) => resp.status = 200

\* a search for the lower-case name of DrugA was answered, over a corpus of
\* at least five rows one of which is named DrugA
IsSelfMatchSearch ==
    /\ app = "Backend/main.py"
    /\ pc = "responded"
    /\ req.op = "GET /search/medications"
    /\ req.query = druga
    /\ drugs_csv.exists
    /\ Len(drugs_csv.rows) >= 5
    /\ \E i \in 1..Len(drugs_csv.rows) : drugs_csv.rows[i].drug_name = DrugA

\* C24: over every corpus of at least five rows that has a row named DrugA,
\* the search for "druga" returns a row of that name among its five results.
C24_SelfMatchInTopFive ==
    IsSelfMatchSearch =>
        /\ Len(resp.body) = 5
        /\ \E k \in 1..Len(resp.body) : resp.body[k].name = DrugA

====
